---------------------------- MODULE Spec2Model ----------------------------
(***************************************************************************)
(* A model of the gramtools core: PRG encoding, the site/allele/marker     *)
(* masks, the FM-index the search reads, the kmer enumeration, and the     *)
(* vBWT backward search.  Vectors are functions over 0..n-1 as in the      *)
(* source (encoded_prg[i], sites_mask[i], fm_index[i]); lists of search    *)
(* states and patterns are sequences.                                      *)
(***************************************************************************)
EXTENDS Integers, Sequences, FiniteSets, TLC

VARIABLES
    prg_raw,                \* the bytes of the linear PRG file
    encode_out,             \* outcome of encode_prg on prg_raw
    encoded_prg,            \* the encoded PRG the masks are generated from
    masks,                  \* the masks generated so far
    loaded_prg_info,        \* PRG_Info: encoded PRG, FM-index, masks, rank supports
    build_parameters,       \* Parameters: kmers_size, max_read_size, all_kmers_flag
    all_kmers,              \* the kmers enumerated for indexing
    built_kmer_index,       \* KmerIndex: kmer -> SearchStates
    current_read,           \* the read handed to search_read_backwards
    remaining_bases,        \* read bases still to process (the reverse iterator)
    current_search_states,  \* new_search_states of search_read_backwards
    read_not_mapped,        \* an extension of the read left no search state
    pc,                     \* position of the build / quasimap run
    coverage_before,        \* Coverage left by the reads recorded earlier in the run
    quasimap_coverage,      \* Coverage: allele_base_coverage, grouped_allele_counts
    recorded_reads,         \* the reads recorded since, each with its search states
    base_counter,           \* one 16-bit counter of allele_base_coverage
    worker_pc,              \* worker -> its position in the loop of set_site_base_coverage
    worker_hits_left,       \* worker -> the hits it has still to count on the base
    region_ranges_given,    \* the ranges handed to combine_overlapping_regions
    region_ranges_reduced,  \* the ranges it returned
    times_combined,         \* how often it was applied
    parts_of_region,        \* region_parts of get_region_parts_reverse_kmers
    size_of_kmers,          \* its kmer_size
    allele_counts_of_parts, \* its parts_allele_counts
    allele_index_path,      \* its current_allele_index_path
    reverse_kmers_made,     \* its all_reverse_kmers
    paths_counted,          \* its count of the paths made
    index_paths_made,       \* the index vectors the paths were made of, in order
    path_loop_pc,           \* its position in the loop over the paths
    all_kmers_size,         \* kmer_size of generate_all_kmers
    enumerated_kmer,        \* its current_kmer
    scan_index,             \* max_update_index of next_kmer
    scan_reads,             \* the positions of current_kmer read by the scan
    inserted_kmers,         \* the kmers inserted into all_kmers, in order
    generate_pc             \* position in generate_all_kmers / next_kmer

prg_vars == <<prg_raw, encode_out, encoded_prg, masks>>

search_vars == <<loaded_prg_info, build_parameters, all_kmers, built_kmer_index,
                 current_read, remaining_bases, current_search_states,
                 read_not_mapped, pc>>

coverage_vars == <<coverage_before, quasimap_coverage, recorded_reads>>

worker_vars == <<base_counter, worker_pc, worker_hits_left>>

region_vars == <<region_ranges_given, region_ranges_reduced, times_combined>>

path_vars == <<parts_of_region, size_of_kmers, allele_counts_of_parts,
               allele_index_path, reverse_kmers_made, paths_counted,
               index_paths_made, path_loop_pc>>

generate_vars == <<all_kmers_size, enumerated_kmer, scan_index, scan_reads,
                   inserted_kmers, generate_pc>>

\* The variables of the specifications of single loops.
loop_vars == <<worker_vars, region_vars, path_vars, generate_vars>>

vars == <<prg_raw, encode_out, encoded_prg, masks, loaded_prg_info,
          build_parameters, all_kmers, built_kmer_index, current_read,
          remaining_bases, current_search_states, read_not_mapped, pc,
          coverage_before, quasimap_coverage, recorded_reads,
          base_counter, worker_pc, worker_hits_left,
          region_ranges_given, region_ranges_reduced, times_combined,
          parts_of_region, size_of_kmers, allele_counts_of_parts,
          allele_index_path, reverse_kmers_made, paths_counted,
          index_paths_made, path_loop_pc,
          all_kmers_size, enumerated_kmer, scan_index, scan_reads,
          inserted_kmers, generate_pc>>

(***************************************************************************)
(* Bounds of the model.                                                    *)
(***************************************************************************)
MaxRawLen == 4
MaxMaskPrgLen == 7

(***************************************************************************)
(* Vectors indexed from 0, as the source indexes them.                     *)
(***************************************************************************)
size(v) == Cardinality(DOMAIN v)

ZeroBased(s) == [i \in 0..(Len(s) - 1) |-> s[i + 1]]

OneBased(v) == [i \in 1..size(v) |-> v[i - 1]]

SeqsUpTo(S, n) == UNION {[1..m -> S] : m \in 0..n}

RECURSIVE SumOver(_, _)
SumOver(S, f) ==
    IF S = {} THEN 0
    ELSE LET x == CHOOSE y \in S : TRUE
         IN f[x] + SumOver(S \ {x}, f)

(***************************************************************************)
(* Unsigned integers of the source.  The integers of the model checker     *)
(* have 32 bits, one of them the sign, so an unsigned value below 2^31 is  *)
(* the integer itself and an unsigned value of 2^31 or more is the         *)
(* sequence of its 16-bit limbs, least significant first, without zero     *)
(* limbs at the high end: 4294967258 = 65535 * 65536 + 65498 is            *)
(* <<65498, 65535>>, and 2^64 - 1 is <<65535, 65535, 65535, 65535>>.       *)
(***************************************************************************)
\* The lowest limbs of the two's complement of an integer: its conversion to
\* an unsigned type of that many limbs.
RECURSIVE limbs_of(_, _)
limbs_of(value, limbs) ==
    IF limbs = 0 THEN <<>>
    ELSE <<value % 65536>> \o limbs_of(value \div 65536, limbs - 1)

\* An unsigned value is written as limbs.
is_limbs(value) == SubSeq(ToString(value), 1, 1) = "<"

\* The lowest limbs of an unsigned value: its conversion to an unsigned type
\* of that many limbs.
unsigned_limbs(value, limbs) ==
    IF is_limbs(value)
    THEN [n \in 1..limbs |-> IF n <= Len(value) THEN value[n] ELSE 0]
    ELSE limbs_of(value, limbs)

RECURSIVE without_high_zero_limbs(_)
without_high_zero_limbs(limbs) ==
    IF limbs /= <<>> /\ limbs[Len(limbs)] = 0
    THEN without_high_zero_limbs(SubSeq(limbs, 1, Len(limbs) - 1))
    ELSE limbs

\* The unsigned value that the limbs spell.
unsigned_value(limbs) ==
    LET kept == without_high_zero_limbs(limbs)
    IN IF kept = <<>> THEN 0
       ELSE IF Len(kept) = 1 THEN kept[1]
       ELSE IF Len(kept) = 2 /\ kept[2] < 32768 THEN kept[2] * 65536 + kept[1]
       ELSE kept

\* Two unsigned values are the same number.
same_unsigned(left, right) == ToString(left) = ToString(right)

\* The conversion of an integer to uint32_t.
uint32_t(value) == IF value >= 0 THEN value ELSE unsigned_value(limbs_of(value, 2))

\* The conversion of a uint32_t to int: the integer with the same 32 bits.
int_of_uint32_t(value) ==
    IF is_limbs(value) THEN (value[2] - 65536) * 65536 + value[1] ELSE value

\* The sum of two numbers of as many limbs; the carry out of the highest
\* limb is lost.
RECURSIVE plus_limbs(_, _, _)
plus_limbs(left, right, carry) ==
    IF left = <<>> THEN <<>>
    ELSE LET sum == Head(left) + Head(right) + carry
         IN <<sum % 65536>> \o plus_limbs(Tail(left), Tail(right), sum \div 65536)

\* left + right in uint64_t; a negative integer stands for its conversion to
\* uint64_t, so that uint64_plus(left, -right) is left - right.
uint64_plus(left, right) ==
    unsigned_value(plus_limbs(unsigned_limbs(left, 4), unsigned_limbs(right, 4), 0))

\* left <= right for numbers of as many limbs.
RECURSIVE limbs_at_most(_, _)
limbs_at_most(left, right) ==
    IF left = <<>> THEN TRUE
    ELSE IF left[Len(left)] /= right[Len(right)] THEN left[Len(left)] < right[Len(right)]
    ELSE limbs_at_most(SubSeq(left, 1, Len(left) - 1), SubSeq(right, 1, Len(right) - 1))

\* left <= right in uint64_t.
uint64_at_most(left, right) ==
    limbs_at_most(unsigned_limbs(left, 4), unsigned_limbs(right, 4))

(***************************************************************************)
(* PRG encoding (prg.cpp).  A byte is its code, 0..255; char is a signed   *)
(* 8-bit type, so that the bytes 128..255 have the values -128..-1.        *)
(***************************************************************************)
char_value(c) == IF c >= 128 THEN c - 256 ELSE c

encode_char(c) ==
    CASE c \in {65, 97} -> [is_dna |-> TRUE, character |-> 1]
      [] c \in {67, 99} -> [is_dna |-> TRUE, character |-> 2]
      [] c \in {71, 103} -> [is_dna |-> TRUE, character |-> 3]
      [] c \in {84, 116} -> [is_dna |-> TRUE, character |-> 4]
      [] OTHER -> [is_dna |-> FALSE, character |-> uint32_t(char_value(c) - 48)]

\* marker * 10 + digit on the four limbs of two 64-bit values, limb by limb
\* with the carry; the carry out of the highest limb is lost.
RECURSIVE times_ten_plus(_, _, _)
times_ten_plus(marker, digit, carry) ==
    IF marker = <<>> THEN <<>>
    ELSE LET sum == Head(marker) * 10 + Head(digit) + carry
         IN <<sum % 65536>> \o times_ten_plus(Tail(marker), Tail(digit), sum \div 65536)

\* marker is a uint64_t and a digit an int, converted to uint64_t for the sum.
RECURSIVE concat_marker_digits_from(_, _, _)
concat_marker_digits_from(marker_digits, i, marker) ==
    IF i > Len(marker_digits) THEN marker
    ELSE concat_marker_digits_from(
             marker_digits, i + 1,
             unsigned_value(times_ten_plus(unsigned_limbs(marker, 4),
                                           limbs_of(marker_digits[i], 4), 0)))

\* Mutant of concat_marker_digits: the accumulated marker is not shifted by a
\* decimal place, so only the last digit survives.
concat_marker_digits_last_digit(marker_digits) ==
    IF marker_digits = <<>> THEN 0
    ELSE unsigned_value(limbs_of(marker_digits[Len(marker_digits)], 4))

concat_marker_digits(marker_digits) ==
    concat_marker_digits_from(marker_digits, 1, 0)

\* The source mutates marker_digits and encoded_prg in place; count_chars is
\* the number of symbols written so far, Len(encoded).  A cell of encoded_prg
\* has 32 bits: it keeps the two lowest limbs of the marker.
flush_marker_digits(marker_digits, encoded) ==
    IF marker_digits = <<>>
    THEN [marker_digits |-> marker_digits, encoded |-> encoded]
    ELSE LET marker == concat_marker_digits(marker_digits)
         IN [marker_digits |-> <<>>,
             encoded |-> Append(encoded, unsigned_value(unsigned_limbs(marker, 2)))]

RECURSIVE encode_prg_loop(_, _, _, _)
encode_prg_loop(raw, i, marker_digits, encoded) ==
    IF i > Len(raw)
    THEN flush_marker_digits(marker_digits, encoded).encoded
    ELSE LET encode_result == encode_char(raw[i])
             flushed == flush_marker_digits(marker_digits, encoded)
         IN IF encode_result.is_dna
            THEN encode_prg_loop(raw, i + 1, flushed.marker_digits,
                                 Append(flushed.encoded, encode_result.character))
            ELSE encode_prg_loop(raw, i + 1,
                                 Append(marker_digits,
                                        int_of_uint32_t(encode_result.character)),
                                 encoded)

\* encode_prg has no failing path: it returns a vector for every input.
encode_prg(raw) ==
    [outcome |-> "returned",
     encoded_prg |-> ZeroBased(encode_prg_loop(raw, 1, <<>>, <<>>))]

(***************************************************************************)
(* Site and allele masks (masks.cpp).                                      *)
(***************************************************************************)
RECURSIVE generate_allele_mask_loop(_, _, _, _, _)
generate_allele_mask_loop(prg, i, current_allele_id, within_variant_site, allele_mask) ==
    IF i >= size(prg) THEN allele_mask
    ELSE LET prg_char == prg[i]
             at_variant_site_boundary == prg_char > 4 /\ prg_char % 2 /= 0
             entering_variant_site == at_variant_site_boundary /\ ~within_variant_site
             exiting_variant_site == at_variant_site_boundary /\ within_variant_site
             within_allele == prg_char <= 4 /\ within_variant_site
             at_allele_marker == prg_char > 4 /\ prg_char % 2 = 0
         IN IF entering_variant_site
            THEN generate_allele_mask_loop(prg, i + 1, 1, TRUE, allele_mask)
            ELSE IF exiting_variant_site
            THEN generate_allele_mask_loop(prg, i + 1, current_allele_id, FALSE, allele_mask)
            ELSE IF within_allele
            THEN generate_allele_mask_loop(prg, i + 1, current_allele_id, within_variant_site,
                                           [allele_mask EXCEPT ![i] = current_allele_id])
            ELSE IF at_allele_marker
            THEN generate_allele_mask_loop(prg, i + 1, current_allele_id + 1,
                                           within_variant_site, allele_mask)
            ELSE generate_allele_mask_loop(prg, i + 1, current_allele_id,
                                           within_variant_site, allele_mask)

\* Mutant of generate_allele_mask: allele ids are counted from 0.
generate_allele_mask_zero_based(prg) ==
    LET mask == generate_allele_mask_loop(prg, 0, 1, FALSE, [i \in DOMAIN prg |-> 0])
    IN [i \in DOMAIN prg |-> IF mask[i] > 0 THEN mask[i] - 1 ELSE 0]

generate_allele_mask(prg) ==
    generate_allele_mask_loop(prg, 0, 1, FALSE, [i \in DOMAIN prg |-> 0])

RECURSIVE generate_sites_mask_loop(_, _, _, _, _)
generate_sites_mask_loop(prg, i, current_site_marker, within_variant_site, sites_mask) ==
    IF i >= size(prg) THEN sites_mask
    ELSE LET prg_char == prg[i]
             at_variant_site_boundary == prg_char > 4 /\ prg_char % 2 /= 0
             entering_variant_site == at_variant_site_boundary /\ ~within_variant_site
             exiting_variant_site == at_variant_site_boundary /\ within_variant_site
             within_allele == prg_char <= 4 /\ within_variant_site
         IN IF entering_variant_site
            THEN generate_sites_mask_loop(prg, i + 1, prg_char, TRUE, sites_mask)
            ELSE IF exiting_variant_site
            THEN generate_sites_mask_loop(prg, i + 1, current_site_marker, FALSE, sites_mask)
            ELSE IF within_allele
            THEN generate_sites_mask_loop(prg, i + 1, current_site_marker, within_variant_site,
                                          [sites_mask EXCEPT ![i] = current_site_marker])
            ELSE generate_sites_mask_loop(prg, i + 1, current_site_marker,
                                          within_variant_site, sites_mask)

\* Mutant of generate_sites_mask: the test for a base (prg_char <= 4) is
\* missing, so an allele marker that follows a base of a site is tagged too.
generate_sites_mask_tags_markers(prg) ==
    LET mask == generate_sites_mask_loop(prg, 0, 0, FALSE, [i \in DOMAIN prg |-> 0])
    IN [i \in DOMAIN prg |->
           IF prg[i] > 4 /\ prg[i] % 2 = 0 /\ i > 0 /\ mask[IF i > 0 THEN i - 1 ELSE 0] /= 0
           THEN mask[i - 1] ELSE mask[i]]

generate_sites_mask(prg) ==
    generate_sites_mask_loop(prg, 0, 0, FALSE, [i \in DOMAIN prg |-> 0])

generate_prg_markers_mask(prg) ==
    [i \in DOMAIN prg |-> IF prg[i] > 4 THEN 1 ELSE 0]

(***************************************************************************)
(* The FM-index over the encoded PRG followed by the terminator 0: the     *)
(* suffix array, the BWT, the compact alphabet and the C array.            *)
(***************************************************************************)
TextWithTerminator(prg) ==
    [i \in 0..size(prg) |-> IF i = size(prg) THEN 0 ELSE prg[i]]

RECURSIVE suffix_less(_, _, _)
suffix_less(text, p, q) ==
    IF text[p] /= text[q] THEN text[p] < text[q]
    ELSE suffix_less(text, p + 1, q + 1)

suffix_rank(text, p) ==
    Cardinality({q \in DOMAIN text : q /= p /\ suffix_less(text, q, p)})

suffix_array(text) ==
    LET rank == [p \in DOMAIN text |-> suffix_rank(text, p)]
    IN [i \in DOMAIN text |-> CHOOSE p \in DOMAIN text : rank[p] = i]

construct_fm_index(prg) ==
    LET text == TextWithTerminator(prg)
        sa == suffix_array(text)
        symbols == {text[i] : i \in DOMAIN text}
        sigma == Cardinality(symbols)
        comp2char == [r \in 0..(sigma - 1) |->
                        CHOOSE c \in symbols :
                            Cardinality({d \in symbols : d < c}) = r]
    IN [sa |-> sa,
        bwt |-> [i \in DOMAIN text |->
                    IF sa[i] = 0 THEN 0 ELSE text[sa[i] - 1]],
        sigma |-> sigma,
        comp2char |-> comp2char,
        C |-> [r \in 0..(sigma - 1) |->
                  Cardinality({i \in DOMAIN text : text[i] < comp2char[r]})]]

\* Mutant of generate_bwt_markers_mask: the threshold is off by one, so the
\* first site marker 5 is not counted as a marker.
generate_bwt_markers_mask_above_5(fm_index) ==
    [i \in DOMAIN fm_index.bwt |-> IF fm_index.bwt[i] > 5 THEN 1 ELSE 0]

generate_bwt_markers_mask(fm_index) ==
    [i \in DOMAIN fm_index.bwt |-> IF fm_index.bwt[i] > 4 THEN 1 ELSE 0]

\* rank_support_v<1>: the number of set bits in mask[0..upper_index).
bit_rank(mask, upper_index) ==
    Cardinality({i \in DOMAIN mask : i < upper_index /\ mask[i] = 1})

markers_mask_count_set_bits(bwt_markers_mask) ==
    bit_rank(bwt_markers_mask, size(bwt_markers_mask))

(***************************************************************************)
(* PRG_Info (prg.cpp, load_prg_info): everything the search reads.         *)
(***************************************************************************)
get_max_alphabet_num(prg) ==
    IF DOMAIN prg = {} THEN 0
    ELSE CHOOSE x \in {prg[i] : i \in DOMAIN prg} :
             \A i \in DOMAIN prg : prg[i] <= x

load_dna_bwt_masks(fm_index) ==
    [base \in 1..4 |->
        [i \in DOMAIN fm_index.bwt |-> IF fm_index.bwt[i] = base THEN 1 ELSE 0]]

load_prg_info(prg) ==
    LET fm_index == construct_fm_index(prg)
        bwt_markers_mask == generate_bwt_markers_mask(fm_index)
    IN [encoded_prg |-> prg,
        max_alphabet_num |-> get_max_alphabet_num(prg),
        fm_index |-> fm_index,
        sites_mask |-> generate_sites_mask(prg),
        allele_mask |-> generate_allele_mask(prg),
        prg_markers_mask |-> generate_prg_markers_mask(prg),
        bwt_markers_mask |-> bwt_markers_mask,
        markers_mask_count_set_bits |-> markers_mask_count_set_bits(bwt_markers_mask),
        dna_bwt_masks |-> load_dna_bwt_masks(fm_index)]

\* select_support_mcl<1>: the position of the marker_count-th set bit (from 1).
bit_select(mask, marker_count) ==
    CHOOSE i \in DOMAIN mask :
        mask[i] = 1 /\ bit_rank(mask, i) = marker_count - 1

\* fm_index.bwt.rank(upper_index, c): occurrences of c in bwt[0..upper_index).
bwt_rank(fm_index, upper_index, c) ==
    Cardinality({i \in DOMAIN fm_index.bwt : i < upper_index /\ fm_index.bwt[i] = c})

\* fm_index.char2comp[c]: the rank of c among the symbols of the text, 0 for a
\* symbol the text does not hold.
char2comp(fm_index, c) ==
    IF \E r \in DOMAIN fm_index.comp2char : fm_index.comp2char[r] = c
    THEN CHOOSE r \in DOMAIN fm_index.comp2char : fm_index.comp2char[r] = c
    ELSE 0

dna_bwt_rank(upper_index, dna_base, prg_info) ==
    IF dna_base \in 1..4
    THEN bit_rank(prg_info.dna_bwt_masks[dna_base], upper_index)
    ELSE 0

(***************************************************************************)
(* vBWT backward search (search.cpp).  A search state is a record          *)
(* [sa_interval, variant_site_path, variant_site_state, invalid]; an       *)
(* SA interval and a variant locus are pairs.                              *)
(***************************************************************************)
outside_variant_site == "outside_variant_site"
within_variant_site == "within_variant_site"
unknown == "unknown"

SearchState(sa_interval, variant_site_path, variant_site_state) ==
    [sa_interval |-> sa_interval,
     variant_site_path |-> variant_site_path,
     variant_site_state |-> variant_site_state,
     invalid |-> FALSE]

RECURSIVE Flatten(_)
Flatten(lists) ==
    IF lists = <<>> THEN <<>> ELSE Head(lists) \o Flatten(Tail(lists))

\* The build keeps its assertions.  When an assertion fails, or when a loop
\* runs over SA rows that the suffix array does not have, the process stops
\* and the function does not return: the search state process_stopped in a
\* list of search states stands for that, and a caller that is handed such a
\* list hands it on.
process_stopped ==
    [sa_interval |-> <<0, 0>>, variant_site_path |-> <<>>,
     variant_site_state |-> "process_stopped", invalid |-> FALSE]

stops(search_states) ==
    \E n \in 1..Len(search_states) :
        search_states[n].variant_site_state = "process_stopped"

\* Variant: the rank at the end of the interval leaves out the last row.
\* (An SA index is a uint32_t: the end of the interval of a base that the
\* rows do not hold is 0 - 1 = 2^32 - 1.)
base_next_sa_interval_end_exclusive(next_char, next_char_first_sa_index, current_sa_interval, prg_info) ==
    LET current_sa_start == current_sa_interval[1]
        current_sa_end == current_sa_interval[2]
        sa_start_offset ==
            IF current_sa_start <= 0 THEN 0
            ELSE IF next_char > 4
                 THEN bwt_rank(prg_info.fm_index, current_sa_start, next_char)
                 ELSE dna_bwt_rank(current_sa_start, next_char, prg_info)
        sa_end_offset ==
            IF next_char > 4
            THEN bwt_rank(prg_info.fm_index, current_sa_end, next_char)
            ELSE dna_bwt_rank(current_sa_end, next_char, prg_info)
        new_start == next_char_first_sa_index + sa_start_offset
        new_end == uint32_t(next_char_first_sa_index + sa_end_offset - 1)
    IN <<new_start, new_end>>

base_next_sa_interval(next_char, next_char_first_sa_index, current_sa_interval, prg_info) ==
    LET current_sa_start == current_sa_interval[1]
        current_sa_end == current_sa_interval[2]
        sa_start_offset ==
            IF current_sa_start <= 0 THEN 0
            ELSE IF next_char > 4
                 THEN bwt_rank(prg_info.fm_index, current_sa_start, next_char)
                 ELSE dna_bwt_rank(current_sa_start, next_char, prg_info)
        sa_end_offset ==
            IF next_char > 4
            THEN bwt_rank(prg_info.fm_index, current_sa_end + 1, next_char)
            ELSE dna_bwt_rank(current_sa_end + 1, next_char, prg_info)
        new_start == next_char_first_sa_index + sa_start_offset
        new_end == uint32_t(next_char_first_sa_index + sa_end_offset - 1)
    IN <<new_start, new_end>>

search_fm_index_base_backwards(pattern_char, char_first_sa_index, search_state, prg_info) ==
    LET next_sa_interval == base_next_sa_interval(pattern_char, char_first_sa_index,
                                                  search_state.sa_interval, prg_info)
        valid_sa_interval ==
            ~same_unsigned(uint32_t(next_sa_interval[1] - 1), next_sa_interval[2])
    IN IF ~valid_sa_interval
       THEN [sa_interval |-> <<0, 0>>, variant_site_path |-> <<>>,
             variant_site_state |-> unknown, invalid |-> TRUE]
       ELSE [search_state EXCEPT !.sa_interval = next_sa_interval]

search_base_backwards(pattern_char, search_states, prg_info) ==
    LET char_alphabet_rank == char2comp(prg_info.fm_index, pattern_char)
        char_first_sa_index == prg_info.fm_index.C[char_alphabet_rank]
        extended == [n \in 1..Len(search_states) |->
                        search_fm_index_base_backwards(pattern_char, char_first_sa_index,
                                                       search_states[n], prg_info)]
    IN SelectSeq(extended, LAMBDA new_search_state : ~new_search_state.invalid)

\* Variant: the first of the two SA rows of the marker is taken for the start
\* boundary, whatever the PRG positions.
site_boundary_marker_info_first_row_is_start(marker_char, sa_right_of_marker, prg_info) ==
    LET fm_index == prg_info.fm_index
        alphabet_rank == char2comp(fm_index, marker_char)
        first_sa_index == fm_index.C[alphabet_rank]
        marker_sa_index_offset ==
            IF sa_right_of_marker <= 0 THEN 0
            ELSE bwt_rank(fm_index, sa_right_of_marker, marker_char)
        marker_sa_index == first_sa_index + marker_sa_index_offset
        marker_text_idx == fm_index.sa[marker_sa_index]
        other_marker_text_idx ==
            IF marker_sa_index = first_sa_index
            THEN fm_index.sa[first_sa_index + 1]
            ELSE fm_index.sa[first_sa_index]
        marker_is_boundary_start == marker_sa_index = first_sa_index
    IN [is_start_boundary |-> marker_is_boundary_start,
        sa_interval |-> <<marker_sa_index, marker_sa_index>>,
        marker_char |-> marker_char]

site_boundary_marker_info(marker_char, sa_right_of_marker, prg_info) ==
    LET fm_index == prg_info.fm_index
        alphabet_rank == char2comp(fm_index, marker_char)
        first_sa_index == fm_index.C[alphabet_rank]
        marker_sa_index_offset ==
            IF sa_right_of_marker <= 0 THEN 0
            ELSE bwt_rank(fm_index, sa_right_of_marker, marker_char)
        marker_sa_index == first_sa_index + marker_sa_index_offset
        marker_text_idx == fm_index.sa[marker_sa_index]
        other_marker_text_idx ==
            IF marker_sa_index = first_sa_index
            THEN fm_index.sa[first_sa_index + 1]
            ELSE fm_index.sa[first_sa_index]
        marker_is_boundary_start == marker_text_idx <= other_marker_text_idx
    IN [is_start_boundary |-> marker_is_boundary_start,
        sa_interval |-> <<marker_sa_index, marker_sa_index>>,
        marker_char |-> marker_char]

get_allele_marker_sa_interval(site_marker_char, prg_info) ==
    LET fm_index == prg_info.fm_index
        allele_marker_char == site_marker_char + 1
        alphabet_rank == char2comp(fm_index, allele_marker_char)
        start_sa_index == fm_index.C[alphabet_rank]
        next_boundary_marker == allele_marker_char + 1
        max_alphabet_char == fm_index.comp2char[fm_index.sigma - 1]
        next_boundary_marker_valid == next_boundary_marker < max_alphabet_char
        end_sa_index ==
            IF next_boundary_marker_valid
            THEN uint32_t(fm_index.C[char2comp(fm_index, next_boundary_marker)] - 1)
            ELSE size(fm_index.sa) - 1
    IN <<start_sa_index, end_sa_index>>

\* Variant: the allele mask is read at the allele marker, not at the base
\* before it.
get_allele_id_at_marker(allele_marker_sa_index, prg_info) ==
    prg_info.allele_mask[prg_info.fm_index.sa[allele_marker_sa_index]]

\* The result of get_allele_id when its assertion allele_id > 0 fails and the
\* process stops; no allele id is negative.
allele_id_assertion_failed == -1

get_allele_id(allele_marker_sa_index, prg_info) ==
    LET internal_allele_text_index == prg_info.fm_index.sa[allele_marker_sa_index] - 1
        allele_id == prg_info.allele_mask[internal_allele_text_index]
    IN IF allele_id > 0 THEN allele_id ELSE allele_id_assertion_failed

\* Variant: the locus of the site entered is put at the back of the path.
get_allele_search_states_locus_at_back(site_boundary_marker, allele_marker_sa_interval, current_search_state, prg_info) ==
    LET first_sa_interval_index == allele_marker_sa_interval[1]
        last_sa_interval_index == allele_marker_sa_interval[2]
        allele_numbers ==
            [n \in 1..(last_sa_interval_index - first_sa_interval_index + 1) |->
                get_allele_id(first_sa_interval_index + n - 1, prg_info)]
    IN IF is_limbs(last_sa_interval_index) THEN <<process_stopped>>
       ELSE IF \E n \in DOMAIN allele_numbers :
                   allele_numbers[n] = allele_id_assertion_failed
       THEN <<process_stopped>>
       ELSE [n \in 1..(last_sa_interval_index - first_sa_interval_index + 1) |->
                LET allele_marker_sa_index == first_sa_interval_index + n - 1
                    allele_number == allele_numbers[n]
                IN [current_search_state EXCEPT
                       !.sa_interval = <<allele_marker_sa_index, allele_marker_sa_index>>,
                       !.variant_site_state = within_variant_site,
                       !.variant_site_path =
                           Append(@, <<site_boundary_marker, allele_number>>)]]

\* An interval whose end has wrapped to 2^32 - 1 keeps the loop running over
\* rows past the end of the suffix array, and a row whose allele id fails the
\* assertion of get_allele_id ends the loop: in both cases the process stops.
get_allele_search_states(site_boundary_marker, allele_marker_sa_interval, current_search_state, prg_info) ==
    LET first_sa_interval_index == allele_marker_sa_interval[1]
        last_sa_interval_index == allele_marker_sa_interval[2]
        allele_numbers ==
            [n \in 1..(last_sa_interval_index - first_sa_interval_index + 1) |->
                get_allele_id(first_sa_interval_index + n - 1, prg_info)]
    IN IF is_limbs(last_sa_interval_index) THEN <<process_stopped>>
       ELSE IF \E n \in DOMAIN allele_numbers :
                   allele_numbers[n] = allele_id_assertion_failed
       THEN <<process_stopped>>
       ELSE [n \in 1..(last_sa_interval_index - first_sa_interval_index + 1) |->
                LET allele_marker_sa_index == first_sa_interval_index + n - 1
                    allele_number == allele_numbers[n]
                IN [current_search_state EXCEPT
                       !.sa_interval = <<allele_marker_sa_index, allele_marker_sa_index>>,
                       !.variant_site_state = within_variant_site,
                       !.variant_site_path =
                           <<<<site_boundary_marker, allele_number>>>> \o @]]

get_site_search_state(final_allele_id, boundary_marker_info, current_search_state, prg_info) ==
    [current_search_state EXCEPT
        !.sa_interval = boundary_marker_info.sa_interval,
        !.variant_site_state = within_variant_site,
        !.variant_site_path = <<<<boundary_marker_info.marker_char, final_allele_id>>>> \o @]

\* Variant: the last allele, which no allele marker ends, is not counted.
get_number_of_alleles_counts_markers(allele_marker_sa_interval) ==
    uint32_t(int_of_uint32_t(allele_marker_sa_interval[2])
             - allele_marker_sa_interval[1] + 1)

\* The difference and the sums are taken in 32 bits without a sign.
get_number_of_alleles(allele_marker_sa_interval) ==
    LET num_allele_markers == int_of_uint32_t(allele_marker_sa_interval[2])
                              - allele_marker_sa_interval[1] + 1
    IN uint32_t(num_allele_markers + 1)

\* Variant: the state of the last allele, which ends at the site marker, is
\* not added.
entering_site_search_states_without_last_allele(boundary_marker_info, current_search_state, prg_info) ==
    LET allele_marker_sa_interval ==
            get_allele_marker_sa_interval(boundary_marker_info.marker_char, prg_info)
        new_search_states ==
            get_allele_search_states(boundary_marker_info.marker_char,
                                     allele_marker_sa_interval,
                                     current_search_state, prg_info)
        final_allele_id == get_number_of_alleles(allele_marker_sa_interval)
        site_search_state == get_site_search_state(final_allele_id, boundary_marker_info,
                                                   current_search_state, prg_info)
    IN new_search_states

entering_site_search_states(boundary_marker_info, current_search_state, prg_info) ==
    LET allele_marker_sa_interval ==
            get_allele_marker_sa_interval(boundary_marker_info.marker_char, prg_info)
        new_search_states ==
            get_allele_search_states(boundary_marker_info.marker_char,
                                     allele_marker_sa_interval,
                                     current_search_state, prg_info)
        final_allele_id == get_number_of_alleles(allele_marker_sa_interval)
        site_search_state == get_site_search_state(final_allele_id, boundary_marker_info,
                                                   current_search_state, prg_info)
    IN IF stops(new_search_states) THEN new_search_states
       ELSE Append(new_search_states, site_search_state)

\* Variant: no locus is recorded for a state that started inside the site.
exiting_site_search_state_never_prepends(boundary_marker_info, current_search_state, prg_info) ==
    LET check_required == current_search_state.variant_site_state /= within_variant_site
        started_in_site == current_search_state.variant_site_path = <<>>
        allele_id == 1
    IN [current_search_state EXCEPT
           !.variant_site_path =
               @,
           !.sa_interval = boundary_marker_info.sa_interval,
           !.variant_site_state = outside_variant_site]

exiting_site_search_state(boundary_marker_info, current_search_state, prg_info) ==
    LET check_required == current_search_state.variant_site_state /= within_variant_site
        started_in_site == current_search_state.variant_site_path = <<>>
        allele_id == 1
    IN [current_search_state EXCEPT
           !.variant_site_path =
               IF check_required /\ started_in_site
               THEN <<<<boundary_marker_info.marker_char, allele_id>>>> \o @
               ELSE @,
           !.sa_interval = boundary_marker_info.sa_interval,
           !.variant_site_state = outside_variant_site]

\* The (SA index, marker) pairs of the rows of the interval whose BWT symbol
\* is a marker, in increasing order of SA index.
left_markers_search(search_state, prg_info) ==
    LET sa_interval == search_state.sa_interval
        rows == [n \in 1..(sa_interval[2] - sa_interval[1] + 1) |-> sa_interval[1] + n - 1]
        marker_rows == SelectSeq(rows, LAMBDA index : prg_info.bwt_markers_mask[index] /= 0)
    IN [n \in 1..Len(marker_rows) |->
           <<marker_rows[n], prg_info.fm_index.bwt[marker_rows[n]]>>]

process_boundary_marker(marker_char, sa_right_of_marker, current_search_state, prg_info) ==
    LET boundary_marker_info == site_boundary_marker_info(marker_char, sa_right_of_marker,
                                                          prg_info)
        entering_variant_site == ~boundary_marker_info.is_start_boundary
    IN IF entering_variant_site
       THEN entering_site_search_states(boundary_marker_info, current_search_state, prg_info)
       ELSE <<exiting_site_search_state(boundary_marker_info, current_search_state, prg_info)>>

\* Variant: the allele mask is read at the allele marker, not at the base to
\* its right.
process_allele_marker_mask_at_marker(allele_marker_char, sa_right_of_marker, current_search_state, prg_info) ==
    LET fm_index == prg_info.fm_index
        boundary_marker_char == allele_marker_char - 1
        alphabet_rank == char2comp(fm_index, boundary_marker_char)
        first_sa_index == fm_index.C[alphabet_rank]
        second_sa_index == first_sa_index + 1
        boundary_start_is_first_sa == fm_index.sa[first_sa_index] < fm_index.sa[second_sa_index]
        boundary_start_sa_index ==
            IF boundary_start_is_first_sa THEN first_sa_index ELSE second_sa_index
        check_required == current_search_state.variant_site_state /= within_variant_site
        started_in_site == current_search_state.variant_site_path = <<>>
        internal_allele_text_index == fm_index.sa[sa_right_of_marker] - 1
        allele_id == prg_info.allele_mask[internal_allele_text_index]
    IN [current_search_state EXCEPT
           !.variant_site_path =
               IF check_required /\ started_in_site
               THEN <<<<boundary_marker_char, allele_id>>>> \o @
               ELSE @,
           !.sa_interval = <<boundary_start_sa_index, boundary_start_sa_index>>,
           !.variant_site_state = outside_variant_site]

process_allele_marker(allele_marker_char, sa_right_of_marker, current_search_state, prg_info) ==
    LET fm_index == prg_info.fm_index
        boundary_marker_char == allele_marker_char - 1
        alphabet_rank == char2comp(fm_index, boundary_marker_char)
        first_sa_index == fm_index.C[alphabet_rank]
        second_sa_index == first_sa_index + 1
        boundary_start_is_first_sa == fm_index.sa[first_sa_index] < fm_index.sa[second_sa_index]
        boundary_start_sa_index ==
            IF boundary_start_is_first_sa THEN first_sa_index ELSE second_sa_index
        check_required == current_search_state.variant_site_state /= within_variant_site
        started_in_site == current_search_state.variant_site_path = <<>>
        internal_allele_text_index == fm_index.sa[sa_right_of_marker]
        allele_id == prg_info.allele_mask[internal_allele_text_index]
    IN [current_search_state EXCEPT
           !.variant_site_path =
               IF check_required /\ started_in_site
               THEN <<<<boundary_marker_char, allele_id>>>> \o @
               ELSE @,
           !.sa_interval = <<boundary_start_sa_index, boundary_start_sa_index>>,
           !.variant_site_state = outside_variant_site]

process_markers_search_state(current_search_state, prg_info) ==
    LET markers == left_markers_search(current_search_state, prg_info)
    IN Flatten([n \in 1..Len(markers) |->
           LET sa_right_of_marker == markers[n][1]
               marker_char == markers[n][2]
               marker_is_site_boundary == marker_char % 2 = 1
           IN IF marker_is_site_boundary
              THEN process_boundary_marker(marker_char, sa_right_of_marker,
                                           current_search_state, prg_info)
              ELSE <<process_allele_marker(marker_char, sa_right_of_marker,
                                           current_search_state, prg_info)>>])

\* Variant: the states made from the markers are put before the old states.
process_markers_search_states_markers_first(old_search_states, prg_info) ==
    LET all_markers_new_search_states ==
            Flatten([n \in 1..Len(old_search_states) |->
                        process_markers_search_state(old_search_states[n], prg_info)])
    IN all_markers_new_search_states \o old_search_states

process_markers_search_states(old_search_states, prg_info) ==
    LET all_markers_new_search_states ==
            Flatten([n \in 1..Len(old_search_states) |->
                        process_markers_search_state(old_search_states[n], prg_info)])
    IN old_search_states \o all_markers_new_search_states

\* Variant: the markers to the left of the search states are not processed.
process_read_char_search_states_without_markers(pattern_char, old_search_states, prg_info) ==
    search_base_backwards(pattern_char, old_search_states, prg_info)

process_read_char_search_states(pattern_char, old_search_states, prg_info) ==
    LET post_markers_search_states == process_markers_search_states(old_search_states,
                                                                    prg_info)
    IN IF stops(old_search_states) \/ stops(post_markers_search_states)
       THEN <<process_stopped>>
       ELSE search_base_backwards(pattern_char, post_markers_search_states, prg_info)

\* Variant: the cached state is extended when the row is in the same site,
\* whatever its allele.
RECURSIVE handle_allele_encapsulated_state_loop_same_site(_, _, _, _)
handle_allele_encapsulated_state_loop_same_site(sa_index, last_sa_index, acc, prg_info) ==
    IF sa_index > last_sa_index
    THEN [acc EXCEPT !.new_search_states =
                         IF acc.empty THEN @ ELSE Append(@, acc.cache),
                     !.empty = TRUE]
    ELSE LET prg_index == prg_info.fm_index.sa[sa_index]
             site_marker == prg_info.sites_mask[prg_index]
             allele_id == prg_info.allele_mask[prg_index]
             within_site == site_marker /= 0
             flushed == IF acc.empty THEN acc.new_search_states
                        ELSE Append(acc.new_search_states, acc.cache)
             current_path == <<<<site_marker, allele_id>>>>
             cache_has_same_path == site_marker = acc.cache.variant_site_path[1][1]
             next_acc ==
                 IF ~within_site
                 THEN [acc EXCEPT
                          !.new_search_states =
                              Append(flushed, SearchState(<<sa_index, sa_index>>, <<>>,
                                                          outside_variant_site)),
                          !.cache = SearchState(<<sa_index, sa_index>>, <<>>,
                                                outside_variant_site),
                          !.empty = TRUE]
                 ELSE IF acc.empty
                 THEN [acc EXCEPT
                          !.cache = SearchState(<<sa_index, sa_index>>, current_path,
                                                within_variant_site),
                          !.empty = FALSE]
                 ELSE IF cache_has_same_path
                 THEN [acc EXCEPT
                          !.asserts_hold = @ /\ acc.cache.sa_interval[2] + 1 = sa_index,
                          !.cache.sa_interval[2] = sa_index]
                 ELSE [acc EXCEPT
                          !.new_search_states = flushed,
                          !.cache = SearchState(<<sa_index, sa_index>>, current_path,
                                                within_variant_site),
                          !.empty = FALSE]
         IN handle_allele_encapsulated_state_loop_same_site(sa_index + 1, last_sa_index,
                                                  next_acc, prg_info)

\* SearchStateCache and the loop of handle_allele_encapsulated_state over the
\* rows of the SA interval.  acc = [cache, empty, new_search_states,
\* asserts_hold]; asserts_hold records the assertions of
\* update_sa_interval_max and the assertion of handle_allele_encapsulated_state
\* that the search state has no path.
RECURSIVE handle_allele_encapsulated_state_loop(_, _, _, _)
handle_allele_encapsulated_state_loop(sa_index, last_sa_index, acc, prg_info) ==
    IF sa_index > last_sa_index
    THEN [acc EXCEPT !.new_search_states =
                         IF acc.empty THEN @ ELSE Append(@, acc.cache),
                     !.empty = TRUE]
    ELSE LET prg_index == prg_info.fm_index.sa[sa_index]
             site_marker == prg_info.sites_mask[prg_index]
             allele_id == prg_info.allele_mask[prg_index]
             within_site == site_marker /= 0
             flushed == IF acc.empty THEN acc.new_search_states
                        ELSE Append(acc.new_search_states, acc.cache)
             current_path == <<<<site_marker, allele_id>>>>
             cache_has_same_path == current_path = acc.cache.variant_site_path
             next_acc ==
                 IF ~within_site
                 THEN [acc EXCEPT
                          !.new_search_states =
                              Append(flushed, SearchState(<<sa_index, sa_index>>, <<>>,
                                                          outside_variant_site)),
                          !.cache = SearchState(<<sa_index, sa_index>>, <<>>,
                                                outside_variant_site),
                          !.empty = TRUE]
                 ELSE IF acc.empty
                 THEN [acc EXCEPT
                          !.cache = SearchState(<<sa_index, sa_index>>, current_path,
                                                within_variant_site),
                          !.empty = FALSE]
                 ELSE IF cache_has_same_path
                 THEN [acc EXCEPT
                          !.asserts_hold = @ /\ acc.cache.sa_interval[2] + 1 = sa_index,
                          !.cache.sa_interval[2] = sa_index]
                 ELSE [acc EXCEPT
                          !.new_search_states = flushed,
                          !.cache = SearchState(<<sa_index, sa_index>>, current_path,
                                                within_variant_site),
                          !.empty = FALSE]
         IN handle_allele_encapsulated_state_loop(sa_index + 1, last_sa_index,
                                                  next_acc, prg_info)

handle_allele_encapsulated_state_run(search_state, prg_info) ==
    LET has_path == search_state.variant_site_path /= <<>>
        start == [cache |-> SearchState(<<0, 0>>, <<>>, unknown), empty |-> TRUE,
                  new_search_states |-> <<>>, asserts_hold |-> ~has_path]
    IN IF has_path THEN start
       ELSE handle_allele_encapsulated_state_loop(
                search_state.sa_interval[1], search_state.sa_interval[2],
                start, prg_info)

\* The process stops when an assertion fails.
handle_allele_encapsulated_state(search_state, prg_info) ==
    LET run == handle_allele_encapsulated_state_run(search_state, prg_info)
    IN IF run.asserts_hold THEN run.new_search_states ELSE <<process_stopped>>

\* Variant: the cache is flushed without the test that it holds a state, so
\* that a default search state is emitted when there is none.
handle_allele_encapsulated_states_flushes_empty_cache(search_states, prg_info) ==
    LET new_search_states ==
            Flatten([n \in 1..Len(search_states) |->
                LET has_path == search_states[n].variant_site_path /= <<>>
                IN IF has_path THEN <<search_states[n]>>
                   ELSE handle_allele_encapsulated_state(search_states[n], prg_info)])
    IN IF new_search_states = <<>> THEN <<SearchState(<<0, 0>>, <<>>, unknown)>>
       ELSE new_search_states

handle_allele_encapsulated_states(search_states, prg_info) ==
    IF stops(search_states) THEN <<process_stopped>>
    ELSE Flatten([n \in 1..Len(search_states) |->
             LET has_path == search_states[n].variant_site_path /= <<>>
             IN IF has_path THEN <<search_states[n]>>
                ELSE handle_allele_encapsulated_state(search_states[n], prg_info)])

(***************************************************************************)
(* Kmer enumeration (kmers.cpp).  A pattern is a sequence of bases; a PRG  *)
(* index range is a pair.                                                  *)
(***************************************************************************)
prg_markers_rank(prg_info, index) == bit_rank(prg_info.prg_markers_mask, index)

\* The conversion of a PRG symbol to Base, an unsigned 8-bit integer: the low
\* eight bits are kept, so that marker 259 is taken for base 3.
Base(symbol) == symbol % 256

prg_markers_select(prg_info, marker_count) ==
    bit_select(prg_info.prg_markers_mask, marker_count)

last_prg_index(prg_info) == size(prg_info.encoded_prg) - 1

RECURSIVE ReverseSeq(_)
ReverseSeq(s) == IF s = <<>> THEN <<>> ELSE Append(ReverseSeq(Tail(s)), Head(s))

\* start_indexes is the map from a site marker seen once to its index.
RECURSIVE get_boundary_marker_indexes_loop(_, _, _, _)
get_boundary_marker_indexes_loop(marker_count, start_indexes, boundary_marker_indexes, prg_info) ==
    IF marker_count > prg_info.markers_mask_count_set_bits
    THEN boundary_marker_indexes
    ELSE LET marker_index == prg_markers_select(prg_info, marker_count)
             marker_char == prg_info.encoded_prg[marker_index]
             marker_is_site_boundary == marker_char % 2 /= 0
             start_index_memorized == marker_char \in DOMAIN start_indexes
         IN IF ~marker_is_site_boundary
            THEN get_boundary_marker_indexes_loop(marker_count + 1, start_indexes,
                                                  boundary_marker_indexes, prg_info)
            ELSE IF ~start_index_memorized
            THEN get_boundary_marker_indexes_loop(
                     marker_count + 1,
                     [m \in DOMAIN start_indexes \cup {marker_char} |->
                         IF m = marker_char THEN marker_index ELSE start_indexes[m]],
                     boundary_marker_indexes, prg_info)
            ELSE get_boundary_marker_indexes_loop(
                     marker_count + 1,
                     [m \in DOMAIN start_indexes \ {marker_char} |-> start_indexes[m]],
                     Append(boundary_marker_indexes,
                            <<start_indexes[marker_char], marker_index>>),
                     prg_info)

get_boundary_marker_indexes(prg_info) ==
    get_boundary_marker_indexes_loop(1, <<>>, <<>>, prg_info)

RECURSIVE find_site_end_boundary_loop(_, _)
find_site_end_boundary_loop(marker_count, prg_info) ==
    IF marker_count > prg_info.markers_mask_count_set_bits THEN 0
    ELSE LET marker_index == prg_markers_select(prg_info, marker_count)
             marker_char == prg_info.encoded_prg[marker_index]
             marker_is_boundary == marker_char % 2 /= 0
             char_is_last_in_prg == marker_index = last_prg_index(prg_info)
         IN IF ~marker_is_boundary
            THEN find_site_end_boundary_loop(marker_count + 1, prg_info)
            ELSE IF char_is_last_in_prg THEN marker_index
            ELSE IF prg_info.allele_mask[marker_index + 1] /= 0
            THEN find_site_end_boundary_loop(marker_count + 1, prg_info)
            ELSE marker_index

find_site_end_boundary(within_site_index, prg_info) ==
    find_site_end_boundary_loop(prg_markers_rank(prg_info, within_site_index) + 1, prg_info)

get_kmer_region_end_index(end_marker_index, max_read_size, prg_info) ==
    LET reach == end_marker_index + max_read_size - 1
        end_index == IF reach > last_prg_index(prg_info)
                     THEN last_prg_index(prg_info) ELSE reach
        within_site == \/ prg_info.allele_mask[end_index] > 0
                       \/ prg_info.prg_markers_mask[end_index] /= 0
    IN IF within_site THEN find_site_end_boundary(end_index, prg_info) ELSE end_index

get_kmer_region_ranges(boundary_marker_indexes, max_read_size, prg_info) ==
    [n \in 1..Len(boundary_marker_indexes) |->
        <<boundary_marker_indexes[n][1],
          get_kmer_region_end_index(boundary_marker_indexes[n][2], max_read_size, prg_info)>>]

\* acc = [current_char, site_alleles, allele]; the alleles are collected from
\* right to left, each reversed when its left marker is met.
RECURSIVE get_site_ordered_alleles_loop(_, _, _, _)
get_site_ordered_alleles_loop(current_index, boundary_marker, acc, prg_info) ==
    IF ~(acc.current_char /= boundary_marker /\ current_index >= 0)
    THEN ReverseSeq(acc.site_alleles)
    ELSE LET current_char == prg_info.encoded_prg[current_index]
             at_site_start_marker == current_char = boundary_marker
             at_allele_marker == current_char > 4 /\ current_char % 2 = 0
         IN IF at_site_start_marker \/ at_allele_marker
            THEN get_site_ordered_alleles_loop(
                     current_index - 1, boundary_marker,
                     [current_char |-> current_char,
                      site_alleles |-> Append(acc.site_alleles, ReverseSeq(acc.allele)),
                      allele |-> <<>>],
                     prg_info)
            ELSE get_site_ordered_alleles_loop(
                     current_index - 1, boundary_marker,
                     [acc EXCEPT !.current_char = current_char,
                                 !.allele = Append(@, Base(current_char))],
                     prg_info)

get_site_ordered_alleles(within_site_index, prg_info) ==
    LET site_end_index == find_site_end_boundary(within_site_index, prg_info)
        boundary_marker == prg_info.encoded_prg[site_end_index]
    IN get_site_ordered_alleles_loop(
           site_end_index - 1, boundary_marker,
           [current_char |-> 0, site_alleles |-> <<>>, allele |-> <<>>], prg_info)

(***************************************************************************)
(* The sites within reach to the left of a kmer end index.  A traversal    *)
(* is [inrange_sites, traversal_state, result]: the handlers change the    *)
(* list and the KmerTraversalState in place and return a status.           *)
(***************************************************************************)
marker_not_in_range == "marker_not_in_range"
handled == "handled"
unhandled == "unhandled"

\* The fields of a KmerTraversalState and kmer_size are uint64_t.
check_marker_in_kmer_range(traversal_state, kmer_size) ==
    LET kmer_distance_traversed ==
            uint64_plus(traversal_state.total_intersite_size,
                        traversal_state.total_handled_sites_count)
    IN uint64_at_most(uint64_plus(kmer_distance_traversed, 1), kmer_size)

handle_allele_marker(traversal, marker_index, prg_info) ==
    LET marker_char == prg_info.encoded_prg[marker_index]
        at_allele_marker == marker_char % 2 = 0
    IN IF ~at_allele_marker THEN [traversal EXCEPT !.result = unhandled]
       ELSE [traversal EXCEPT !.traversal_state.last_marker_index = marker_index,
                              !.result = handled]

handle_first_marker_seen(traversal, marker_index, kmer_size, prg_info) ==
    LET at_first_marker == traversal.inrange_sites = <<>>
        measured == [traversal EXCEPT
                        !.traversal_state.total_intersite_size =
                            uint64_plus(traversal.traversal_state.outside_site_start_index,
                                        -marker_index)]
        marker_in_range == check_marker_in_kmer_range(measured.traversal_state, kmer_size)
    IN IF ~at_first_marker THEN [traversal EXCEPT !.result = unhandled]
       ELSE IF ~marker_in_range THEN [measured EXCEPT !.result = marker_not_in_range]
       ELSE [measured EXCEPT !.traversal_state.last_marker_index = marker_index,
                             !.inrange_sites = <<marker_index>> \o @,
                             !.result = handled]

handle_end_boundary_marker(traversal, marker_index, kmer_size, prg_info) ==
    LET marker_char == prg_info.encoded_prg[marker_index]
        at_boundary_marker == marker_char % 2 /= 0
        last_marker_index == traversal.traversal_state.last_marker_index
        last_marker_char == prg_info.encoded_prg[last_marker_index]
        last_marker_was_boundary == last_marker_char % 2 /= 0
        at_boundary_end_marker == at_boundary_marker /\ last_marker_was_boundary
        measured == [traversal EXCEPT
                        !.traversal_state.total_intersite_size =
                            uint64_plus(@, last_marker_index - marker_index - 1)]
        marker_in_range == check_marker_in_kmer_range(measured.traversal_state, kmer_size)
    IN IF ~at_boundary_end_marker THEN [traversal EXCEPT !.result = unhandled]
       ELSE IF ~marker_in_range THEN [measured EXCEPT !.result = marker_not_in_range]
       ELSE [measured EXCEPT !.inrange_sites = <<marker_index>> \o @,
                             !.traversal_state.last_marker_index = marker_index,
                             !.result = handled]

handle_start_boundary_marker(traversal, marker_index, prg_info) ==
    LET marker_char == prg_info.encoded_prg[marker_index]
        at_boundary_marker == marker_char % 2 /= 0
        last_marker_index == traversal.traversal_state.last_marker_index
        last_marker_char == prg_info.encoded_prg[last_marker_index]
        last_marker_was_boundary == last_marker_char % 2 /= 0
        at_boundary_start_marker == at_boundary_marker /\ ~last_marker_was_boundary
    IN IF ~at_boundary_start_marker THEN [traversal EXCEPT !.result = unhandled]
       ELSE [traversal EXCEPT !.traversal_state.total_handled_sites_count = @ + 1,
                              !.traversal_state.last_marker_index = marker_index,
                              !.result = handled]

find_site_end_indexes(traversal, marker_index, kmer_size, prg_info) ==
    LET first == handle_first_marker_seen(traversal, marker_index, kmer_size, prg_info)
        allele == handle_allele_marker(traversal, marker_index, prg_info)
        end_boundary == handle_end_boundary_marker(traversal, marker_index, kmer_size, prg_info)
    IN IF first.result /= unhandled THEN first
       ELSE IF allele.result /= unhandled THEN allele
       ELSE IF end_boundary.result /= unhandled THEN end_boundary
       ELSE handle_start_boundary_marker(traversal, marker_index, prg_info)

index_is_site_end_boundary(index, prg_info) ==
    LET at_last_prg_index == index = last_prg_index(prg_info)
        at_marker == prg_info.prg_markers_mask[index] = 1
    IN IF ~at_last_prg_index
       THEN at_marker /\ ~(prg_info.allele_mask[index + 1] > 0)
       ELSE at_marker

RECURSIVE sites_inrange_left_loop(_, _, _, _)
sites_inrange_left_loop(marker_count, traversal, kmer_size, prg_info) ==
    IF ~(marker_count > 0) THEN traversal.inrange_sites
    ELSE LET marker_index == prg_markers_select(prg_info, marker_count)
             next == find_site_end_indexes(traversal, marker_index, kmer_size, prg_info)
         IN IF next.result = marker_not_in_range THEN next.inrange_sites
            ELSE sites_inrange_left_loop(marker_count - 1, next, kmer_size, prg_info)

sites_inrange_left(outside_site_start_index, kmer_size, prg_info) ==
    LET start_index == outside_site_start_index
        at_site_end_boundary == index_is_site_end_boundary(start_index, prg_info)
        number_markers_before == prg_markers_rank(prg_info, start_index)
                                 + (IF at_site_end_boundary THEN 1 ELSE 0)
    IN sites_inrange_left_loop(
           number_markers_before,
           [inrange_sites |-> <<>>,
            traversal_state |-> [outside_site_start_index |-> outside_site_start_index,
                                 last_marker_index |-> 0,
                                 total_handled_sites_count |-> 0,
                                 total_intersite_size |-> 0],
            result |-> unhandled],
           kmer_size, prg_info)

get_nonvariant_region(site_end_boundary_index, prg_info) ==
    LET start_marker_index == site_end_boundary_index
        number_markers_before == prg_markers_rank(prg_info, start_marker_index)
        next_marker_offset == number_markers_before + 2
        no_next_marker == next_marker_offset > prg_info.markers_mask_count_set_bits
    IN IF start_marker_index + 1 > last_prg_index(prg_info) THEN <<0, 0>>
       ELSE <<start_marker_index + 1,
              IF no_next_marker THEN last_prg_index(prg_info)
              ELSE prg_markers_select(prg_info, next_marker_offset) - 1>>

right_intersite_nonvariant_region(site_end_boundary_index, prg_info) ==
    LET nonvariant_range == get_nonvariant_region(site_end_boundary_index, prg_info)
        start == nonvariant_range[1]
        end == nonvariant_range[2]
    IN [n \in 1..(end - start + 1) |-> Base(prg_info.encoded_prg[start + n - 1])]

extract_simple_reverse_kmer(kmer_end_index, kmer_size, prg_info) ==
    LET start_index_is_valid == kmer_end_index - kmer_size + 1 >= 0
    IN IF ~start_index_is_valid THEN <<>>
       ELSE [n \in 1..kmer_size |-> Base(prg_info.encoded_prg[kmer_end_index - n + 1])]

\* The loop reads select(number_markers_before) before it tests for the
\* first marker of the PRG, where it stops whatever the marker is.
RECURSIVE find_site_start_boundary_loop(_, _, _)
find_site_start_boundary_loop(number_markers_before, target_marker, prg_info) ==
    LET current_index == prg_markers_select(prg_info, number_markers_before)
        current_marker == prg_info.encoded_prg[current_index]
    IN IF number_markers_before = 1 \/ current_marker = target_marker
       THEN current_index
       ELSE find_site_start_boundary_loop(number_markers_before - 1, target_marker, prg_info)

find_site_start_boundary(end_boundary_index, prg_info) ==
    LET target_marker == prg_info.encoded_prg[end_boundary_index]
    IN IF target_marker = 0 THEN end_boundary_index
       ELSE find_site_start_boundary_loop(
                prg_markers_rank(prg_info, end_boundary_index), target_marker, prg_info)

RECURSIVE get_pre_site_part_loop(_, _, _, _)
get_pre_site_part_loop(i, end_index, pre_site_part, prg_info) ==
    IF ~(i >= end_index) THEN pre_site_part
    ELSE LET base == Base(prg_info.encoded_prg[i])
         IN IF base > 4 THEN pre_site_part
            ELSE get_pre_site_part_loop(i - 1, end_index, Append(pre_site_part, base), prg_info)

get_pre_site_part(site_end_boundary, kmer_size, prg_info) ==
    LET first_site_start_boundary == find_site_start_boundary(site_end_boundary, prg_info)
        reach == first_site_start_boundary - kmer_size - 1
        end_index == IF reach < 0 THEN 0 ELSE reach
    IN IF first_site_start_boundary /= 0
       THEN ReverseSeq(get_pre_site_part_loop(first_site_start_boundary - 1, end_index,
                                              <<>>, prg_info))
       ELSE <<>>

add_pre_site_region(region_parts, inrange_sites, kmer_size, prg_info) ==
    LET first_site_end_boundary == Head(inrange_sites)
        pre_site_part == get_pre_site_part(first_site_end_boundary, kmer_size, prg_info)
    IN IF pre_site_part /= <<>> THEN Append(region_parts, <<pre_site_part>>)
       ELSE region_parts

RECURSIVE add_site_regions_loop(_, _, _, _)
add_site_regions_loop(site_count, region_parts, inrange_sites, prg_info) ==
    IF site_count >= Len(inrange_sites) THEN region_parts
    ELSE LET end_boundary_index == inrange_sites[site_count + 1]
             ordered_alleles == get_site_ordered_alleles(end_boundary_index, prg_info)
             at_last_site == site_count = Len(inrange_sites) - 1
             nonvariant_region == right_intersite_nonvariant_region(end_boundary_index, prg_info)
         IN add_site_regions_loop(
                site_count + 1,
                IF at_last_site THEN Append(region_parts, ordered_alleles)
                ELSE Append(Append(region_parts, ordered_alleles), <<nonvariant_region>>),
                inrange_sites, prg_info)

add_site_regions(region_parts, inrange_sites, prg_info) ==
    add_site_regions_loop(0, region_parts, inrange_sites, prg_info)

\* acc = [region_parts, nonvariant_region, number_consumed_kmer_bases]
RECURSIVE add_post_site_regions_loop(_, _, _, _)
add_post_site_regions_loop(index, acc, kmer_size, prg_info) ==
    LET flushed == IF acc.nonvariant_region /= <<>>
                   THEN Append(acc.region_parts, <<acc.nonvariant_region>>)
                   ELSE acc.region_parts
    IN IF ~(acc.number_consumed_kmer_bases < kmer_size + 1
            /\ index <= last_prg_index(prg_info))
       THEN flushed
       ELSE LET within_site == \/ prg_info.allele_mask[index] > 0
                               \/ prg_info.prg_markers_mask[index] /= 0
                site_end_boundary == find_site_end_boundary(index, prg_info)
                ordered_alleles == get_site_ordered_alleles(site_end_boundary, prg_info)
            IN IF ~within_site
               THEN add_post_site_regions_loop(
                        index + 1,
                        [acc EXCEPT !.nonvariant_region =
                                        Append(@, Base(prg_info.encoded_prg[index])),
                                    !.number_consumed_kmer_bases = @ + 1],
                        kmer_size, prg_info)
               ELSE IF site_end_boundary = last_prg_index(prg_info)
               THEN Append(flushed, ordered_alleles)
               ELSE add_post_site_regions_loop(
                        site_end_boundary + 1,
                        [region_parts |-> Append(flushed, ordered_alleles),
                         nonvariant_region |-> <<>>,
                         number_consumed_kmer_bases |-> acc.number_consumed_kmer_bases + 1],
                        kmer_size, prg_info)

add_post_site_regions(region_parts, inrange_sites, kmer_size, prg_info) ==
    LET end_boundary_index == inrange_sites[Len(inrange_sites)]
    IN IF end_boundary_index = last_prg_index(prg_info) THEN region_parts
       ELSE add_post_site_regions_loop(
                end_boundary_index + 1,
                [region_parts |-> region_parts, nonvariant_region |-> <<>>,
                 number_consumed_kmer_bases |-> 0],
                kmer_size, prg_info)

get_kmer_size_region_parts(current_range_end_index, inrange_sites, kmer_size, prg_info) ==
    add_post_site_regions(
        add_site_regions(
            add_pre_site_region(<<>>, inrange_sites, kmer_size, prg_info),
            inrange_sites, prg_info),
        inrange_sites, kmer_size, prg_info)

(***************************************************************************)
(* Paths through the region parts.  An allele index path holds one         *)
(* 0-based allele index per part.                                          *)
(***************************************************************************)
\* Variant: the indexes to the right of the increased one are not reset.
update_allele_index_path_without_reset(current_allele_index_path, parts_allele_counts) ==
    LET increasable == {i \in 1..Len(current_allele_index_path) :
                           current_allele_index_path[i] + 1 /= parts_allele_counts[i]}
        more_paths_possible == increasable /= {}
        i == CHOOSE n \in increasable : \A m \in increasable : m <= n
    IN IF ~more_paths_possible
       THEN [more_paths_possible |-> FALSE,
             current_allele_index_path |-> current_allele_index_path]
       ELSE [more_paths_possible |-> TRUE,
             current_allele_index_path |->
                 [n \in 1..Len(current_allele_index_path) |->
                     IF n < i THEN current_allele_index_path[n]
                     ELSE IF n = i THEN current_allele_index_path[n] + 1
                     ELSE current_allele_index_path[n]]]

update_allele_index_path(current_allele_index_path, parts_allele_counts) ==
    LET increasable == {i \in 1..Len(current_allele_index_path) :
                           current_allele_index_path[i] + 1 /= parts_allele_counts[i]}
        more_paths_possible == increasable /= {}
        i == CHOOSE n \in increasable : \A m \in increasable : m <= n
    IN IF ~more_paths_possible
       THEN [more_paths_possible |-> FALSE,
             current_allele_index_path |-> current_allele_index_path]
       ELSE [more_paths_possible |-> TRUE,
             current_allele_index_path |->
                 [n \in 1..Len(current_allele_index_path) |->
                     IF n < i THEN current_allele_index_path[n]
                     ELSE IF n = i THEN current_allele_index_path[n] + 1
                     ELSE 0]]

RECURSIVE total_number_paths(_)
total_number_paths(region_parts) ==
    IF region_parts = <<>> THEN 1
    ELSE Len(Head(region_parts)) * total_number_paths(Tail(region_parts))

\* The pattern that stands for a read before the first element of path.
path_read_below_zero == <<-1>>

\* get_path_reverse_kmers with an inner loop that ends one element early:
\* windows of kmer_size - 1 elements.
get_path_reverse_kmers_short_windows(path, kmer_size) ==
    {[n \in 1..(kmer_size - 1) |-> path[i - n + 1]] : i \in kmer_size..Len(path)}

\* The loop test i >= kmer_size - 1 compares the signed i with an unsigned
\* 64-bit value, so i is taken as unsigned.  With kmer_size = 0 the bound is
\* 2^64 - 1, which only i = -1 reaches: an empty path gives one pass that
\* inserts the empty pattern, any other path gives no pass.  With
\* kmer_size = 1 every i passes the test, i = -1 included, and with
\* kmer_size >= 2 and an empty path the loop starts at i = -1, which passes
\* the test.  The loop then reads path[-1], path[-2], ... until the process
\* is stopped and nothing is returned; path_read_below_zero in the result
\* stands for that.  Otherwise a path shorter than a kmer holds no kmer.
get_path_reverse_kmers(path, kmer_size) ==
    LET loop_ends == kmer_size - 1 > 0 /\ Len(path) - 1 >= 0
    IN IF kmer_size = 0
       THEN (IF path = <<>> THEN {<<>>} ELSE {})
       ELSE {[n \in 1..kmer_size |-> path[i - n + 1]] : i \in kmer_size..Len(path)}
            \cup (IF loop_ends THEN {} ELSE {path_read_below_zero})

RECURSIVE get_region_parts_reverse_kmers_loop(_, _, _, _, _)
get_region_parts_reverse_kmers_loop(count_paths, current_allele_index_path, all_reverse_kmers, region_parts, kmer_size) ==
    IF ~(count_paths < total_number_paths(region_parts)) THEN all_reverse_kmers
    ELSE LET path == Flatten([i \in 1..Len(region_parts) |->
                                 region_parts[i][current_allele_index_path[i] + 1]])
             reverse_kmers == get_path_reverse_kmers(path, kmer_size)
             parts_allele_counts == [i \in 1..Len(region_parts) |-> Len(region_parts[i])]
             updated == update_allele_index_path(current_allele_index_path,
                                                 parts_allele_counts)
         IN IF ~updated.more_paths_possible THEN all_reverse_kmers \cup reverse_kmers
            ELSE get_region_parts_reverse_kmers_loop(
                     count_paths + 1, updated.current_allele_index_path,
                     all_reverse_kmers \cup reverse_kmers, region_parts, kmer_size)

get_region_parts_reverse_kmers(region_parts, kmer_size) ==
    get_region_parts_reverse_kmers_loop(0, [i \in 1..Len(region_parts) |-> 0], {},
                                        region_parts, kmer_size)

\* Returns the kmers and the updated current_range_end_index.
get_sites_reverse_kmers(current_range_end_index, inrange_sites, kmer_size, prg_info) ==
    LET region_parts == get_kmer_size_region_parts(current_range_end_index, inrange_sites,
                                                   kmer_size, prg_info)
        first_site_end_boundary == Head(inrange_sites)
        first_site_start_boundary == find_site_start_boundary(first_site_end_boundary,
                                                              prg_info)
    IN [all_reverse_kmers |-> get_region_parts_reverse_kmers(region_parts, kmer_size),
        current_range_end_index |-> IF first_site_start_boundary = 0
                                    THEN first_site_start_boundary
                                    ELSE first_site_start_boundary - 1]

\* current_index is unsigned in the source: decremented at 0 it wraps to a
\* value that passes the loop test and fails the validity test; here that
\* value is -1.
RECURSIVE get_region_range_reverse_kmers_loop(_, _, _, _, _)
get_region_range_reverse_kmers_loop(current_index, all_reverse_kmers, region_start, kmer_size, prg_info) ==
    LET current_index_is_valid == current_index - kmer_size + 1 >= 0
        inrange_sites == sites_inrange_left(current_index, kmer_size, prg_info)
        sites_in_range == inrange_sites /= <<>>
        sites == get_sites_reverse_kmers(current_index, inrange_sites, kmer_size, prg_info)
        within_site == \/ prg_info.allele_mask[current_index] > 0
                       \/ prg_info.prg_markers_mask[current_index] /= 0
        reverse_kmer == extract_simple_reverse_kmer(current_index, kmer_size, prg_info)
    IN IF current_index >= 0 /\ ~(current_index >= region_start) THEN all_reverse_kmers
       ELSE IF ~current_index_is_valid THEN all_reverse_kmers
       ELSE IF sites_in_range
       THEN IF sites.current_range_end_index = 0
            THEN all_reverse_kmers \cup sites.all_reverse_kmers
            ELSE get_region_range_reverse_kmers_loop(
                     sites.current_range_end_index - 1,
                     all_reverse_kmers \cup sites.all_reverse_kmers,
                     region_start, kmer_size, prg_info)
       ELSE IF within_site
       THEN get_region_range_reverse_kmers_loop(current_index - 1, all_reverse_kmers,
                                                region_start, kmer_size, prg_info)
       ELSE IF reverse_kmer = <<>> THEN all_reverse_kmers
       ELSE get_region_range_reverse_kmers_loop(current_index - 1,
                                                all_reverse_kmers \cup {reverse_kmer},
                                                region_start, kmer_size, prg_info)

get_region_range_reverse_kmers(kmer_region_range, kmer_size, prg_info) ==
    get_region_range_reverse_kmers_loop(kmer_region_range[2], {}, kmer_region_range[1],
                                        kmer_size, prg_info)

ordering_condition(lhs, rhs) ==
    IF lhs[1] < rhs[1] THEN TRUE
    ELSE IF lhs[1] = rhs[1] THEN lhs[2] < rhs[2]
    ELSE FALSE

\* combine_overlapping_regions without the sort: the ranges are combined in
\* the order they are given in.
sort_ranges_as_given(ranges) == ranges

\* std::sort with ordering_condition: equal ranges are indistinguishable, so
\* the order of the result is determined.
RECURSIVE sort_ranges(_)
sort_ranges(ranges) ==
    IF ranges = <<>> THEN <<>>
    ELSE LET least == CHOOSE n \in 1..Len(ranges) :
                          \A m \in 1..Len(ranges) : ~ordering_condition(ranges[m], ranges[n])
             rest == [m \in 1..(Len(ranges) - 1) |->
                         IF m < least THEN ranges[m] ELSE ranges[m + 1]]
         IN <<ranges[least]>> \o sort_ranges(rest)

\* acc = [reduced_ranges, last_range_seen]
RECURSIVE combine_overlapping_regions_loop(_, _)
combine_overlapping_regions_loop(sorted_ranges, acc) ==
    IF sorted_ranges = <<>> THEN acc
    ELSE LET range == Head(sorted_ranges)
             last_range_seen == acc.last_range_seen
             at_first_range == last_range_seen[1] = 0 /\ last_range_seen[2] = 0
             last_range_not_overlap == last_range_seen[2] < range[1]
             range_completely_encapsulated == last_range_seen[2] > range[2]
         IN combine_overlapping_regions_loop(
                Tail(sorted_ranges),
                IF at_first_range THEN [acc EXCEPT !.last_range_seen = range]
                ELSE IF last_range_not_overlap
                THEN [reduced_ranges |-> Append(acc.reduced_ranges, last_range_seen),
                      last_range_seen |-> range]
                ELSE IF range_completely_encapsulated THEN acc
                ELSE [acc EXCEPT !.last_range_seen[2] = range[2]])

combine_overlapping_regions(kmer_region_ranges) ==
    LET merged == combine_overlapping_regions_loop(
                      sort_ranges(kmer_region_ranges),
                      [reduced_ranges |-> <<>>, last_range_seen |-> <<0, 0>>])
        reduced_ranges == merged.reduced_ranges
        last_range_seen == merged.last_range_seen
        no_last_range_recorded == last_range_seen[1] = 0 /\ last_range_seen[2] = 0
    IN IF no_last_range_recorded THEN reduced_ranges
       ELSE IF reduced_ranges = <<>> THEN <<last_range_seen>>
       ELSE IF reduced_ranges[Len(reduced_ranges)] /= last_range_seen
       THEN Append(reduced_ranges, last_range_seen)
       ELSE reduced_ranges

\* The ordered set of reverse kmers, as a set.
get_prg_reverse_kmers(parameters, prg_info) ==
    LET boundary_marker_indexes == get_boundary_marker_indexes(prg_info)
        kmer_region_ranges ==
            combine_overlapping_regions(
                get_kmer_region_ranges(boundary_marker_indexes, parameters.max_read_size,
                                       prg_info))
    IN UNION {get_region_range_reverse_kmers(kmer_region_ranges[n], parameters.kmers_size,
                                             prg_info) :
                 n \in 1..Len(kmer_region_ranges)}

\* The order of patterns of one length in an ordered_vector_set: the first
\* position where they differ decides.
sequence_ordering_condition(lhs, rhs) ==
    \E i \in 1..Len(lhs) :
        /\ lhs[i] < rhs[i]
        /\ \A j \in 1..(i - 1) : lhs[j] = rhs[j]

\* The elements of an ordered_vector_set in the order of iteration.
RECURSIVE ordered_vector_set(_)
ordered_vector_set(patterns) ==
    IF patterns = {} THEN <<>>
    ELSE LET first == CHOOSE x \in patterns :
                          \A y \in patterns \ {x} : sequence_ordering_condition(x, y)
         IN <<first>> \o ordered_vector_set(patterns \ {first})

\* reverse without the std::reverse of line 881: the reverse kmers are
\* returned as they are.
reverse_without_reversal(reverse_kmers) ==
    ordered_vector_set(reverse_kmers)

\* reverse: every reverse kmer turned back to the order of the PRG, in the
\* order of the set of reverse kmers.
reverse(reverse_kmers) ==
    LET ordered == ordered_vector_set(reverse_kmers)
    IN [n \in 1..Len(ordered) |-> ReverseSeq(ordered[n])]

\* What a read of the bytes in front of a vector comes to.  The behaviour is
\* undefined: the bytes found there are read, or the read stops the process.
\* The read of the bytes in front of an empty vector, whose data pointer is
\* null, stops the process either way.
OutsideReads == {"bytes_read", "process_stopped"}

\* The pattern that stands for a read in front of current_kmer that stops
\* the process.
kmer_read_below_zero == <<-2>>

\* The scan for the rightmost base below 4 has no test of its index: when
\* every base is 4, and when kmer_size is 0, it reads current_kmer[-1] and
\* the bytes in front of it for as long as they hold a 4.  With the bytes
\* read the index ends below 0 and the kmer is emptied; with the process
\* stopped nothing is returned, and kmer_read_below_zero stands for that.
next_kmer(current_kmer, kmer_size, outside_read) ==
    LET incrementable == {i \in 1..kmer_size : current_kmer[i] /= 4}
        max_update_index == CHOOSE i \in incrementable : \A j \in incrementable : j <= i
    IN IF incrementable = {}
       THEN IF current_kmer = <<>> \/ outside_read = "process_stopped"
            THEN kmer_read_below_zero
            ELSE <<>>
       ELSE [i \in 1..Len(current_kmer) |->
                IF i < max_update_index \/ i > kmer_size THEN current_kmer[i]
                ELSE IF i = max_update_index THEN current_kmer[i] + 1
                ELSE 1]

\* The loop of generate_all_kmers.  When next_kmer does not return neither
\* does generate_all_kmers: kmer_read_below_zero in the result stands for
\* that.
RECURSIVE generate_all_kmers_loop(_, _, _, _)
generate_all_kmers_loop(current_kmer, generated, kmer_size, outside_read) ==
    LET following == next_kmer(current_kmer, kmer_size, outside_read)
    IN IF following = kmer_read_below_zero
       THEN generated \cup {current_kmer, kmer_read_below_zero}
       ELSE IF following = <<>> THEN generated \cup {current_kmer}
       ELSE generate_all_kmers_loop(following, generated \cup {current_kmer}, kmer_size,
                                    outside_read)

generate_all_kmers(kmer_size, outside_read) ==
    generate_all_kmers_loop([i \in 1..kmer_size |-> 1], {}, kmer_size, outside_read)

\* get_all_kmers returns unless next_kmer is stopped at its read in front of
\* the kmer, or get_path_reverse_kmers, called for a site within reach, runs
\* off its path.
get_all_kmers_returns(parameters, prg_info, outside_read) ==
    IF parameters.all_kmers_flag
    THEN kmer_read_below_zero \notin generate_all_kmers(parameters.kmers_size, outside_read)
    ELSE path_read_below_zero \notin get_prg_reverse_kmers(parameters, prg_info)

get_all_kmers(parameters, prg_info, outside_read) ==
    reverse(IF parameters.all_kmers_flag
            THEN generate_all_kmers(parameters.kmers_size, outside_read)
            ELSE get_prg_reverse_kmers(parameters, prg_info))

(***************************************************************************)
(* Kmer index build: every kmer is searched backwards from the full SA     *)
(* interval, its last base with the DNA extension and every further base   *)
(* with one extension step, from right to left.                            *)
(***************************************************************************)
RECURSIVE search_kmer_backwards_loop(_, _, _, _)
search_kmer_backwards_loop(n, kmer, search_states, prg_info) ==
    IF n = 0 THEN search_states
    ELSE search_kmer_backwards_loop(
             n - 1, kmer,
             process_read_char_search_states(kmer[n], search_states, prg_info),
             prg_info)

\* The full SA interval stands for no base read yet: the search of the last
\* base of the kmer has no marker to resolve and is the DNA extension alone;
\* every further base is one extension step, marker handling first.
search_kmer_backwards(kmer, prg_info) ==
    LET initial_search_state ==
            SearchState(<<0, size(prg_info.fm_index.sa) - 1>>, <<>>, outside_variant_site)
    IN IF kmer = <<>> THEN <<initial_search_state>>
       ELSE search_kmer_backwards_loop(
                Len(kmer) - 1, kmer,
                search_base_backwards(kmer[Len(kmer)], <<initial_search_state>>, prg_info),
                prg_info)

index_kmers(kmers, prg_info) ==
    [kmer \in {kmers[n] : n \in 1..Len(kmers)} |-> search_kmer_backwards(kmer, prg_info)]

\* The kmer of a read: its last kmers_size bases.
get_kmer_from_read(kmers_size, read) ==
    SubSeq(read, Len(read) - kmers_size + 1, Len(read))

\* search_read_backwards as one function of the read: the loop over the
\* bases of the read left of its kmer, from right to left; it is the
\* position of the iterator in the read, counted from 1, and 0 at
\* read.rend().  For a read shorter than its kmer std::advance puts the
\* iterator past read.rend(), which the loop, going further left, never
\* meets: it reads the bytes in front of the read until no search state is
\* left, or the process is stopped.
RECURSIVE search_read_backwards_loop(_, _, _, _, _)
search_read_backwards_loop(it, new_search_states, read, prg_info, outside_read) ==
    IF it = 0 THEN new_search_states
    ELSE IF it < 0
    THEN IF outside_read = "process_stopped" THEN <<process_stopped>> ELSE <<>>
    ELSE LET pattern_char == read[it]
             extended == process_read_char_search_states(pattern_char, new_search_states,
                                                         prg_info)
             read_not_mapped_now == extended = <<>>
         IN IF read_not_mapped_now THEN extended
            ELSE search_read_backwards_loop(it - 1, extended, read, prg_info,
                                            outside_read)

search_read_backwards(read, kmer, kmer_index, prg_info, outside_read) ==
    LET kmer_in_index == kmer \in DOMAIN kmer_index
    IN IF ~kmer_in_index THEN <<>>
       ELSE IF kmer_index[kmer] = <<>> THEN <<>>
       ELSE handle_allele_encapsulated_states(
                search_read_backwards_loop(Len(read) - Len(kmer), kmer_index[kmer],
                                           read, prg_info, outside_read),
                prg_info)

(***************************************************************************)
(* Base-level allele coverage (allele_base.cpp).  A coverage vector is a   *)
(* function over 0..n-1; an unsigned 64-bit value that has wrapped below   *)
(* zero is kept as the negative number it is congruent to, and compares    *)
(* above every index and every read length.                                *)
(***************************************************************************)
UINT16_MAX == 65535

min_boundary_marker == 5

emplace_back(v, x) == [i \in 0..size(v) |-> IF i < size(v) THEN v[i] ELSE x]

get_number_of_variant_sites(prg_info) ==
    Cardinality({prg_info.encoded_prg[i] :
        i \in {j \in DOMAIN prg_info.encoded_prg :
                  prg_info.encoded_prg[j] > 4 /\ prg_info.encoded_prg[j] % 2 = 1}})

\* The coverage that stands for the std::out_of_range that at() throws and
\* nothing catches: the process is stopped.
out_of_range == [site \in {-1} |-> <<>>]

RECURSIVE allele_base_structure_loop(_, _, _, _, _)
allele_base_structure_loop(i, allele_size, last_marker, allele_base_coverage, prg_info) ==
    IF i >= size(prg_info.sites_mask) THEN allele_base_coverage
    ELSE LET mask_value == prg_info.sites_mask[i]
             within_allele == mask_value /= 0
             no_allele_to_flush == allele_size = 0
         IN IF within_allele
            THEN allele_base_structure_loop(i + 1, allele_size + 1, mask_value,
                                            allele_base_coverage, prg_info)
            ELSE IF no_allele_to_flush
            THEN allele_base_structure_loop(i + 1, allele_size, last_marker,
                                            allele_base_coverage, prg_info)
            ELSE LET bases == [b \in 0..(allele_size - 1) |-> 0]
                     variant_site_cover_index ==
                         (last_marker - min_boundary_marker) \div 2
                 IN IF variant_site_cover_index \notin DOMAIN allele_base_coverage
                    THEN out_of_range
                    ELSE allele_base_structure_loop(
                             i + 1, 0, last_marker,
                             [allele_base_coverage EXCEPT ![variant_site_cover_index] =
                                 emplace_back(@, bases)],
                             prg_info)

allele_base_structure(prg_info) ==
    LET number_of_variant_sites == get_number_of_variant_sites(prg_info)
    IN allele_base_structure_loop(
           0, 0, 0, [site \in 0..(number_of_variant_sites - 1) |-> <<>>], prg_info)

allele_start_offset_index(within_allele_prg_index, prg_info) ==
    LET number_markers_before == prg_markers_rank(prg_info, within_allele_prg_index)
        marker_index == prg_markers_select(prg_info, number_markers_before)
    IN within_allele_prg_index - marker_index - 1

\* a >= b for two unsigned values that may have wrapped: a negative number
\* is the uint64_t it wraps to.
unsigned_at_least(a, b) == IF (a < 0) = (b < 0) THEN a >= b ELSE a < 0

\* std::min and std::max of two unsigned values, either of which may have
\* wrapped.
unsigned_min(a, b) == IF unsigned_at_least(a, b) THEN b ELSE a

unsigned_max(a, b) == IF unsigned_at_least(a, b) THEN a ELSE b

\* The coverage that stands for the failed assertion of
\* set_site_base_coverage: the process is stopped.
coverage_assertion_failed ==
    [allele_base_coverage |-> [site \in {-2} |-> <<>>], grouped_allele_counts |-> <<>>]

\* set_site_base_coverage without the test of line 88: a counter at
\* UINT16_MAX wraps around to zero.
set_site_base_coverage_wrapping(coverage, sites_coverage_boundaries, path_element, allele_coverage_offset, max_bases_to_set) ==
    LET marker == path_element[1]
        variant_site_coverage_index == (marker - min_boundary_marker) \div 2
        site_coverage == coverage.allele_base_coverage[variant_site_coverage_index]
        allele_id == path_element[2]
        allele_coverage_index == allele_id - 1
        allele_coverage == site_coverage[allele_coverage_index]
        index_end_boundary ==
            unsigned_min(allele_coverage_offset + max_bases_to_set, size(allele_coverage))
        count_bases_consumed == index_end_boundary - allele_coverage_offset
        site_seen_previously == path_element \in DOMAIN sites_coverage_boundaries
        index_start_boundary ==
            IF site_seen_previously
            THEN unsigned_max(allele_coverage_offset, sites_coverage_boundaries[path_element])
            ELSE allele_coverage_offset
        new_boundaries ==
            [locus \in DOMAIN sites_coverage_boundaries \cup {path_element} |->
                IF locus = path_element THEN index_end_boundary
                ELSE sites_coverage_boundaries[locus]]
        new_allele_coverage ==
            [i \in DOMAIN allele_coverage |->
                IF unsigned_at_least(i, index_start_boundary) /\ ~unsigned_at_least(i, index_end_boundary)
                THEN (allele_coverage[i] + 1) % (UINT16_MAX + 1)
                ELSE allele_coverage[i]]
    IN [coverage |->
            [coverage EXCEPT
                !.allele_base_coverage[variant_site_coverage_index][allele_coverage_index] =
                    new_allele_coverage],
        sites_coverage_boundaries |-> new_boundaries,
        count_bases_consumed |-> count_bases_consumed]

\* set_site_base_coverage leaving the loop of lines 87-93 at the first
\* counter at UINT16_MAX instead of going on with the next counter.
set_site_base_coverage_break(coverage, sites_coverage_boundaries, path_element, allele_coverage_offset, max_bases_to_set) ==
    LET marker == path_element[1]
        variant_site_coverage_index == (marker - min_boundary_marker) \div 2
        site_coverage == coverage.allele_base_coverage[variant_site_coverage_index]
        allele_id == path_element[2]
        allele_coverage_index == allele_id - 1
        allele_coverage == site_coverage[allele_coverage_index]
        index_end_boundary ==
            unsigned_min(allele_coverage_offset + max_bases_to_set, size(allele_coverage))
        count_bases_consumed == index_end_boundary - allele_coverage_offset
        site_seen_previously == path_element \in DOMAIN sites_coverage_boundaries
        index_start_boundary ==
            IF site_seen_previously
            THEN unsigned_max(allele_coverage_offset, sites_coverage_boundaries[path_element])
            ELSE allele_coverage_offset
        new_boundaries ==
            [locus \in DOMAIN sites_coverage_boundaries \cup {path_element} |->
                IF locus = path_element THEN index_end_boundary
                ELSE sites_coverage_boundaries[locus]]
        new_allele_coverage ==
            [i \in DOMAIN allele_coverage |->
                IF unsigned_at_least(i, index_start_boundary) /\ ~unsigned_at_least(i, index_end_boundary)
                   /\ \A j \in DOMAIN allele_coverage :
                          (unsigned_at_least(j, index_start_boundary) /\ j <= i) => allele_coverage[j] /= UINT16_MAX
                THEN (allele_coverage[i] + 1) % (UINT16_MAX + 1)
                ELSE allele_coverage[i]]
    IN [coverage |->
            [coverage EXCEPT
                !.allele_base_coverage[variant_site_coverage_index][allele_coverage_index] =
                    new_allele_coverage],
        sites_coverage_boundaries |-> new_boundaries,
        count_bases_consumed |-> count_bases_consumed]

\* set_site_base_coverage marking a base as covered (counter set to one)
\* instead of counting it.
set_site_base_coverage_assign(coverage, sites_coverage_boundaries, path_element, allele_coverage_offset, max_bases_to_set) ==
    LET marker == path_element[1]
        variant_site_coverage_index == (marker - min_boundary_marker) \div 2
        site_coverage == coverage.allele_base_coverage[variant_site_coverage_index]
        allele_id == path_element[2]
        allele_coverage_index == allele_id - 1
        allele_coverage == site_coverage[allele_coverage_index]
        index_end_boundary ==
            unsigned_min(allele_coverage_offset + max_bases_to_set, size(allele_coverage))
        count_bases_consumed == index_end_boundary - allele_coverage_offset
        site_seen_previously == path_element \in DOMAIN sites_coverage_boundaries
        index_start_boundary ==
            IF site_seen_previously
            THEN unsigned_max(allele_coverage_offset, sites_coverage_boundaries[path_element])
            ELSE allele_coverage_offset
        new_boundaries ==
            [locus \in DOMAIN sites_coverage_boundaries \cup {path_element} |->
                IF locus = path_element THEN index_end_boundary
                ELSE sites_coverage_boundaries[locus]]
        new_allele_coverage ==
            [i \in DOMAIN allele_coverage |->
                IF unsigned_at_least(i, index_start_boundary) /\ ~unsigned_at_least(i, index_end_boundary)
                   /\ allele_coverage[i] /= UINT16_MAX
                THEN 1
                ELSE allele_coverage[i]]
    IN [coverage |->
            [coverage EXCEPT
                !.allele_base_coverage[variant_site_coverage_index][allele_coverage_index] =
                    new_allele_coverage],
        sites_coverage_boundaries |-> new_boundaries,
        count_bases_consumed |-> count_bases_consumed]

\* Result: the coverage, the boundaries and the number of bases consumed; the
\* coverage is coverage_assertion_failed when the assertion of line 75 fails,
\* an offset past the end of the allele.
set_site_base_coverage(coverage, sites_coverage_boundaries, path_element, allele_coverage_offset, max_bases_to_set) ==
    LET marker == path_element[1]
        variant_site_coverage_index == (marker - min_boundary_marker) \div 2
        site_coverage == coverage.allele_base_coverage[variant_site_coverage_index]
        allele_id == path_element[2]
        allele_coverage_index == allele_id - 1
        allele_coverage == site_coverage[allele_coverage_index]
        index_end_boundary ==
            unsigned_min(allele_coverage_offset + max_bases_to_set, size(allele_coverage))
        count_bases_consumed == index_end_boundary - allele_coverage_offset
        site_seen_previously == path_element \in DOMAIN sites_coverage_boundaries
        index_start_boundary ==
            IF site_seen_previously
            THEN unsigned_max(allele_coverage_offset, sites_coverage_boundaries[path_element])
            ELSE allele_coverage_offset
        new_boundaries ==
            [locus \in DOMAIN sites_coverage_boundaries \cup {path_element} |->
                IF locus = path_element THEN index_end_boundary
                ELSE sites_coverage_boundaries[locus]]
        new_allele_coverage ==
            [i \in DOMAIN allele_coverage |->
                IF unsigned_at_least(i, index_start_boundary) /\ ~unsigned_at_least(i, index_end_boundary)
                   /\ allele_coverage[i] /= UINT16_MAX
                THEN (allele_coverage[i] + 1) % (UINT16_MAX + 1)
                ELSE allele_coverage[i]]
    IN IF ~unsigned_at_least(index_end_boundary, allele_coverage_offset)
       THEN [coverage |-> coverage_assertion_failed,
             sites_coverage_boundaries |-> sites_coverage_boundaries,
             count_bases_consumed |-> 0]
       ELSE [coverage |->
                [coverage EXCEPT
                    !.allele_base_coverage[variant_site_coverage_index][allele_coverage_index] =
                        new_allele_coverage],
             sites_coverage_boundaries |-> new_boundaries,
             count_bases_consumed |-> count_bases_consumed]

site_marker_prg_indexes(site_marker, prg_info) ==
    LET alphabet_rank == char2comp(prg_info.fm_index, site_marker)
        first_sa_index == prg_info.fm_index.C[alphabet_rank]
        second_sa_index == first_sa_index + 1
        first_prg_index == prg_info.fm_index.sa[first_sa_index]
        second_prg_index == prg_info.fm_index.sa[second_sa_index]
    IN IF first_prg_index < second_prg_index
       THEN <<first_prg_index, second_prg_index>>
       ELSE <<second_prg_index, first_prg_index>>

\* The while loop over the loci of the path that follow the first one handled.
RECURSIVE sa_index_allele_base_coverage_loop(_, _, _, _, _, _, _, _, _)
sa_index_allele_base_coverage_loop(coverage, sites_coverage_boundaries, read_bases_consumed, path_it, last_site_prg_start_end, site_prg_start_end, read_length, search_state, prg_info) ==
    IF coverage = coverage_assertion_failed
       \/ ~(read_bases_consumed >= 0 /\ read_bases_consumed < read_length
            /\ path_it <= Len(search_state.variant_site_path))
    THEN [coverage |-> coverage, sites_coverage_boundaries |-> sites_coverage_boundaries]
    ELSE LET path_element == search_state.variant_site_path[path_it]
             site_marker == path_element[1]
             last_site_known == last_site_prg_start_end[1] /= 0
             new_site_prg_start_end ==
                 IF last_site_known THEN site_marker_prg_indexes(site_marker, prg_info)
                 ELSE site_prg_start_end
             consumed_to_site ==
                 IF last_site_known
                 THEN read_bases_consumed + new_site_prg_start_end[1]
                      - last_site_prg_start_end[2] - 1
                 ELSE read_bases_consumed
             max_bases_to_set == read_length - consumed_to_site
             set == set_site_base_coverage(coverage, sites_coverage_boundaries,
                                           path_element, 0, max_bases_to_set)
         IN sa_index_allele_base_coverage_loop(
                set.coverage, set.sites_coverage_boundaries,
                consumed_to_site + set.count_bases_consumed, path_it + 1,
                new_site_prg_start_end, new_site_prg_start_end,
                read_length, search_state, prg_info)

\* Result: the coverage and the boundaries.
sa_index_allele_base_coverage(coverage, sites_coverage_boundaries, sa_index, read_length, search_state, prg_info) ==
    LET path_element == search_state.variant_site_path[1]
        site_marker == path_element[1]
        read_start_index == prg_info.fm_index.sa[sa_index]
        start_site_marker == prg_info.sites_mask[read_start_index]
        read_starts_within_site == start_site_marker /= 0
    IN IF read_starts_within_site
       THEN LET last_site_prg_start_end == site_marker_prg_indexes(site_marker, prg_info)
                allele_coverage_offset ==
                    allele_start_offset_index(read_start_index, prg_info)
                max_bases_to_set == read_length
                set == set_site_base_coverage(coverage, sites_coverage_boundaries,
                                              path_element, allele_coverage_offset,
                                              max_bases_to_set)
            IN sa_index_allele_base_coverage_loop(
                   set.coverage, set.sites_coverage_boundaries,
                   set.count_bases_consumed, 2, last_site_prg_start_end, <<0, 0>>,
                   read_length, search_state, prg_info)
       ELSE LET site_prg_start_end == site_marker_prg_indexes(site_marker, prg_info)
            IN sa_index_allele_base_coverage_loop(
                   coverage, sites_coverage_boundaries,
                   site_prg_start_end[1] - read_start_index, 1, <<0, 0>>,
                   site_prg_start_end, read_length, search_state, prg_info)

\* The SA rows of one search state, first_sa_index to last_sa_index.
RECURSIVE allele_base_sa_indexes(_, _, _, _, _, _)
allele_base_sa_indexes(coverage, sites_coverage_boundaries, sa_index, read_length, search_state, prg_info) ==
    IF coverage = coverage_assertion_failed \/ sa_index > search_state.sa_interval[2]
    THEN [coverage |-> coverage, sites_coverage_boundaries |-> sites_coverage_boundaries]
    ELSE LET recorded == sa_index_allele_base_coverage(
                             coverage, sites_coverage_boundaries, sa_index,
                             read_length, search_state, prg_info)
         IN allele_base_sa_indexes(recorded.coverage, recorded.sites_coverage_boundaries,
                                   sa_index + 1, read_length, search_state, prg_info)

RECURSIVE allele_base_loop(_, _, _, _, _, _)
allele_base_loop(coverage, sites_coverage_boundaries, n, search_states, read_length, prg_info) ==
    IF coverage = coverage_assertion_failed \/ n > Len(search_states) THEN coverage
    ELSE LET search_state == search_states[n]
         IN IF search_state.variant_site_path = <<>>
            THEN allele_base_loop(coverage, sites_coverage_boundaries, n + 1,
                                  search_states, read_length, prg_info)
            ELSE LET recorded == allele_base_sa_indexes(
                                     coverage, sites_coverage_boundaries,
                                     search_state.sa_interval[1], read_length,
                                     search_state, prg_info)
                 IN allele_base_loop(recorded.coverage,
                                     recorded.sites_coverage_boundaries, n + 1,
                                     search_states, read_length, prg_info)

\* coverage::record::allele_base
allele_base(coverage, search_states, read_length, prg_info) ==
    allele_base_loop(coverage, <<>>, 1, search_states, read_length, prg_info)

(***************************************************************************)
(* Grouped allele counts and the empty coverage structure.  A group of     *)
(* allele ids is an increasing sequence of 0-based ids; the counts of a    *)
(* site are a function from the groups seen to their counters.             *)
(***************************************************************************)
RECURSIVE sorted_allele_ids(_)
sorted_allele_ids(ids) ==
    IF ids = {} THEN <<>>
    ELSE LET least == CHOOSE x \in ids : \A y \in ids : x <= y
         IN <<least>> \o sorted_allele_ids(ids \ {least})

grouped_allele_counts_structure(prg_info) ==
    [site \in 0..(get_number_of_variant_sites(prg_info) - 1) |-> <<>>]

empty_structure(prg_info) ==
    [allele_base_coverage |-> allele_base_structure(prg_info),
     grouped_allele_counts |-> grouped_allele_counts_structure(prg_info)]

\* The 0-based allele ids the paths of the search states give for a site.
site_allele_ids(search_states, site_marker) ==
    UNION {{search_states[n].variant_site_path[l][2] - 1 :
               l \in {x \in 1..Len(search_states[n].variant_site_path) :
                         search_states[n].variant_site_path[x][1] = site_marker}} :
           n \in 1..Len(search_states)}

\* grouped_allele_counts keying the counters by the allele ids of the paths
\* as they are (1-based).
grouped_allele_counts_one_based(coverage, search_states) ==
    [coverage EXCEPT !.grouped_allele_counts =
        [site \in DOMAIN @ |->
            LET site_marker == min_boundary_marker + 2 * site
                ids == site_allele_ids(search_states, site_marker)
                group == sorted_allele_ids({id + 1 : id \in ids})
            IN IF ids = {} THEN @[site]
               ELSE [g \in DOMAIN @[site] \cup {group} |->
                        IF g = group
                        THEN (IF g \in DOMAIN @[site] THEN @[site][g] ELSE 0) + 1
                        ELSE @[site][g]]]]

\* coverage::record::grouped_allele_counts
grouped_allele_counts(coverage, search_states) ==
    [coverage EXCEPT !.grouped_allele_counts =
        [site \in DOMAIN @ |->
            LET site_marker == min_boundary_marker + 2 * site
                ids == site_allele_ids(search_states, site_marker)
                group == sorted_allele_ids(ids)
            IN IF ids = {} THEN @[site]
               ELSE [g \in DOMAIN @[site] \cup {group} |->
                        IF g = group
                        THEN (IF g \in DOMAIN @[site] THEN @[site][g] ELSE 0) + 1
                        ELSE @[site][g]]]]

(***************************************************************************)
(* Inputs.                                                                 *)
(***************************************************************************)
\* Bytes of a raw PRG: A a C g T, the digits 0 1 5 6, and N ':' and the
\* newline, which are neither DNA letters nor digits.
RawBytes == {65, 97, 67, 103, 84, 48, 49, 53, 54, 78, 58, 10}

IsDnaLetter(c) == c \in {65, 97, 67, 99, 71, 103, 84, 116}

IsDigit(c) == c \in 48..57

\* Symbols of the PRGs the masks are generated for: the base T (the largest
\* base), site 5 with allele marker 6, site 13 with allele marker 14.
MaskSymbols == {4, 5, 6, 13, 14}

IsSiteMarker(c) == c > 4 /\ c % 2 = 1

IsAlleleMarker(c) == c > 4 /\ c % 2 = 0

\* Every site marker occurs exactly twice and no other site marker lies
\* between its two occurrences.
PairedSiteMarkers(prg) ==
    \A i \in DOMAIN prg :
        IsSiteMarker(prg[i]) =>
            /\ Cardinality({j \in DOMAIN prg : prg[j] = prg[i]}) = 2
            /\ \A j \in DOMAIN prg :
                   (j > i /\ prg[j] = prg[i]) =>
                       \A t \in (i + 1)..(j - 1) : ~IsSiteMarker(prg[t])

MaskPrgs ==
    {prg \in {ZeroBased(s) : s \in SeqsUpTo(MaskSymbols, MaxMaskPrgLen)} :
        PairedSiteMarkers(prg)}

(***************************************************************************)
(* Specification of the encoder: one raw PRG, encoded by encode_prg.       *)
(***************************************************************************)
NotRun == [outcome |-> "not_run", encoded_prg |-> <<>>]

NoMasks == [generated |-> {}, sites_mask |-> <<>>, allele_mask |-> <<>>,
            prg_markers_mask |-> <<>>, bwt_markers_mask |-> <<>>,
            markers_mask_count_set_bits |-> 0]

\* No coverage is recorded.
CoverageIdle ==
    /\ coverage_before = <<>>
    /\ quasimap_coverage = <<>>
    /\ recorded_reads = <<>>

\* No worker counts on the base counter.
WorkersIdle ==
    /\ base_counter = 0
    /\ worker_pc = <<>>
    /\ worker_hits_left = <<>>

\* No ranges are combined.
RegionsIdle ==
    /\ region_ranges_given = <<>>
    /\ region_ranges_reduced = <<>>
    /\ times_combined = 0

\* No paths of region parts are enumerated.
PathsIdle ==
    /\ parts_of_region = <<>>
    /\ size_of_kmers = 0
    /\ allele_counts_of_parts = <<>>
    /\ allele_index_path = <<>>
    /\ reverse_kmers_made = {}
    /\ paths_counted = 0
    /\ index_paths_made = <<>>
    /\ path_loop_pc = "idle"

\* generate_all_kmers does not run.
GenerateIdle ==
    /\ all_kmers_size = 0
    /\ enumerated_kmer = <<>>
    /\ scan_index = 0
    /\ scan_reads = {}
    /\ inserted_kmers = <<>>
    /\ generate_pc = "idle"

LoopsIdle == WorkersIdle /\ RegionsIdle /\ PathsIdle /\ GenerateIdle

\* The build / quasimap run has not started.
SearchIdle ==
    /\ loaded_prg_info = <<>>
    /\ build_parameters = <<>>
    /\ all_kmers = <<>>
    /\ built_kmer_index = <<>>
    /\ current_read = <<>>
    /\ remaining_bases = 0
    /\ current_search_states = <<>>
    /\ read_not_mapped = FALSE
    /\ pc = "idle"

InitEncode ==
    /\ prg_raw \in SeqsUpTo(RawBytes, MaxRawLen)
    /\ encode_out = NotRun
    /\ encoded_prg = <<>>
    /\ masks = NoMasks
    /\ SearchIdle
    /\ CoverageIdle
    /\ LoopsIdle

EncodePrg ==
    /\ encode_out.outcome = "not_run"
    /\ encode_out' = encode_prg(prg_raw)
    /\ UNCHANGED <<prg_raw, encoded_prg, masks>>
    /\ UNCHANGED search_vars
    /\ UNCHANGED coverage_vars
    /\ UNCHANGED loop_vars

NextEncode == EncodePrg

SpecEncode == InitEncode /\ [][NextEncode]_vars

(***************************************************************************)
(* Specification of the masks: one encoded PRG; each generator runs once,  *)
(* in any order.                                                           *)
(***************************************************************************)
InitMasks ==
    /\ prg_raw = <<>>
    /\ encode_out = NotRun
    /\ encoded_prg \in MaskPrgs
    /\ masks = NoMasks
    /\ SearchIdle
    /\ CoverageIdle
    /\ LoopsIdle

GenerateSitesMask ==
    /\ "sites_mask" \notin masks.generated
    /\ masks' = [masks EXCEPT !.generated = @ \cup {"sites_mask"},
                              !.sites_mask = generate_sites_mask(encoded_prg)]
    /\ UNCHANGED <<prg_raw, encode_out, encoded_prg>>
    /\ UNCHANGED search_vars
    /\ UNCHANGED coverage_vars
    /\ UNCHANGED loop_vars

GenerateAlleleMask ==
    /\ "allele_mask" \notin masks.generated
    /\ masks' = [masks EXCEPT !.generated = @ \cup {"allele_mask"},
                              !.allele_mask = generate_allele_mask(encoded_prg)]
    /\ UNCHANGED <<prg_raw, encode_out, encoded_prg>>
    /\ UNCHANGED search_vars
    /\ UNCHANGED coverage_vars
    /\ UNCHANGED loop_vars

\* load_prg_info: the marker masks of the PRG and of the BWT, and the count
\* of set bits taken from the BWT mask.
LoadMarkersMasks ==
    /\ "markers_masks" \notin masks.generated
    /\ LET fm_index == construct_fm_index(encoded_prg)
           bwt_markers_mask == generate_bwt_markers_mask(fm_index)
       IN masks' = [masks EXCEPT
                       !.generated = @ \cup {"markers_masks"},
                       !.prg_markers_mask = generate_prg_markers_mask(encoded_prg),
                       !.bwt_markers_mask = bwt_markers_mask,
                       !.markers_mask_count_set_bits =
                           markers_mask_count_set_bits(bwt_markers_mask)]
    /\ UNCHANGED <<prg_raw, encode_out, encoded_prg>>
    /\ UNCHANGED search_vars
    /\ UNCHANGED coverage_vars
    /\ UNCHANGED loop_vars

NextMasks ==
    \/ GenerateSitesMask
    \/ GenerateAlleleMask
    \/ LoadMarkersMasks

SpecMasks == InitMasks /\ [][NextMasks]_vars

(***************************************************************************)
(* The haplotypes of a PRG, as walks over the positions of its bases: a    *)
(* base is followed by the next base of its stretch, by the first base of  *)
(* any allele of the site that starts there, or, at the end of an allele,  *)
(* by what follows the end marker of its site.                             *)
(***************************************************************************)
SiteEnd(prg_info, m) ==
    CHOOSE e \in DOMAIN prg_info.encoded_prg :
        /\ prg_info.encoded_prg[e] = m
        /\ \A t \in DOMAIN prg_info.encoded_prg : prg_info.encoded_prg[t] = m => t <= e

AlleleStarts(prg_info, m) ==
    {i \in DOMAIN prg_info.encoded_prg :
        prg_info.sites_mask[i] = m /\ prg_info.encoded_prg[i - 1] > 4}

BasesAt(prg_info, q) ==
    IF q > last_prg_index(prg_info) THEN {}
    ELSE IF prg_info.encoded_prg[q] <= 4 THEN {q}
    ELSE AlleleStarts(prg_info, prg_info.encoded_prg[q])

NextBases(prg_info, p) ==
    IF p + 1 > last_prg_index(prg_info) THEN {}
    ELSE IF prg_info.encoded_prg[p + 1] <= 4 THEN {p + 1}
    ELSE IF prg_info.sites_mask[p] = 0 THEN BasesAt(prg_info, p + 1)
    ELSE BasesAt(prg_info, SiteEnd(prg_info, prg_info.sites_mask[p]) + 1)

RECURSIVE Walks(_, _)
Walks(prg_info, length) ==
    IF length = 1
    THEN {<<p>> : p \in {i \in DOMAIN prg_info.encoded_prg : prg_info.encoded_prg[i] <= 4}}
    ELSE UNION {{Append(w, q) : q \in NextBases(prg_info, w[length - 1])} :
                   w \in Walks(prg_info, length - 1)}

Spell(prg_info, w) == [n \in 1..Len(w) |-> prg_info.encoded_prg[w[n]]]

\* The places of a read in the haplotypes.
Occurrences(prg_info, read) ==
    {w \in Walks(prg_info, Len(read)) : Spell(prg_info, w) = read}

(***************************************************************************)
(* Inputs of the build and of quasimap: a PRG with its parameters, and the *)
(* reads.  The PRGs are every PRG over the bases A and C with one site of  *)
(* two alleles or with two sites of two one-base alleles within the        *)
(* bounds, with a gap of at least one base between the sites (the text of  *)
(* a PRG cannot put two markers next to each other: their digits would     *)
(* spell one marker), each with all_kmers_flag off and on, and the listed  *)
(* PRGs with more alleles and more sites.                                  *)
(***************************************************************************)
MaxGapLen == 1
MaxFlankLen == 1
MaxAlleleLen == 1
MaxKmersSize == 2
MaxReadSize == 3

SmallBases == {1, 2}

OneSitePrgs ==
    {pre \o <<5>> \o first \o <<6>> \o second \o <<5>> \o post :
        pre \in SeqsUpTo(SmallBases, MaxFlankLen),
        first \in SeqsUpTo(SmallBases, MaxAlleleLen) \ {<<>>},
        second \in SeqsUpTo(SmallBases, MaxAlleleLen) \ {<<>>},
        post \in SeqsUpTo(SmallBases, MaxFlankLen)}

TwoSitePrgs ==
    {pre \o <<5, a1, 6, a2, 5>> \o gap \o <<7, b1, 8, b2, 7>> \o post :
        pre \in SeqsUpTo(SmallBases, MaxFlankLen),
        a1 \in SmallBases, a2 \in SmallBases,
        gap \in SeqsUpTo(SmallBases, MaxGapLen) \ {<<>>},
        b1 \in SmallBases, b2 \in SmallBases,
        post \in SeqsUpTo(SmallBases, MaxFlankLen)}

Config(prg, kmers_size, max_read_size, all_kmers_flag) ==
    [prg |-> ZeroBased(prg),
     parameters |-> [kmers_size |-> kmers_size, max_read_size |-> max_read_size,
                     all_kmers_flag |-> all_kmers_flag]]

\* aca5g6t5gcatt; gct5c6g6t5ac7cc8a7; a5g6t5c; gaaa5c6t5a; a5a6c5a7a8c7a;
\* 5aaa6c5aa; 5a6c5g7ac8t7; a5ca6ca5t7c8c7a
ListedConfigs ==
    {Config(<<1, 2, 1, 5, 3, 6, 4, 5, 3, 2, 1, 4, 4>>, 5, 8, FALSE),
     Config(<<3, 2, 4, 5, 2, 6, 3, 6, 4, 5, 1, 2, 7, 2, 2, 8, 1, 7>>, 3, 4, FALSE),
     Config(<<1, 5, 3, 6, 4, 5, 2>>, 1, 3, TRUE),
     Config(<<3, 2, 4, 5, 2, 6, 3, 6, 4, 5, 1, 2, 7, 2, 2, 8, 1, 7>>, 3, 4, TRUE),
     Config(<<3, 1, 1, 1, 5, 2, 6, 4, 5, 1>>, 2, 2, FALSE),
     Config(<<1, 5, 1, 6, 2, 5, 1, 7, 1, 8, 2, 7, 1>>, 2, 4, FALSE),
     Config(<<5, 1, 1, 1, 6, 2, 5, 1, 1>>, 1, 2, TRUE),
     Config(<<5, 1, 6, 2, 5, 3, 7, 1, 2, 8, 4, 7>>, 1, 3, TRUE),
     Config(<<1, 5, 2, 1, 6, 2, 1, 5, 4, 7, 2, 8, 2, 7, 1>>, 2, 3, FALSE)}

SmallConfigs ==
    {Config(prg, kmers_size, max_read_size, all_kmers_flag) :
        prg \in OneSitePrgs \cup TwoSitePrgs,
        kmers_size \in 1..MaxKmersSize,
        max_read_size \in 1..MaxReadSize,
        all_kmers_flag \in BOOLEAN}

Configs ==
    ListedConfigs \cup
    {config \in SmallConfigs :
        config.parameters.kmers_size <= config.parameters.max_read_size}

\* The reads: every string of a haplotype with kmers_size to max_read_size
\* bases, and the same with one base replaced.
HaplotypeReads(prg_info, parameters) ==
    UNION {{Spell(prg_info, w) : w \in Walks(prg_info, length)} :
              length \in parameters.kmers_size..parameters.max_read_size}

Reads(prg_info, parameters) ==
    LET haplotype_reads == HaplotypeReads(prg_info, parameters)
    IN haplotype_reads \cup
       UNION {{[r EXCEPT ![i] = base] : i \in 1..Len(r), base \in 1..4} :
                 r \in haplotype_reads}

(***************************************************************************)
(* Specification of the build and of quasimap for one read: the kmers of   *)
(* the loaded PRG are enumerated and indexed, then a read is searched      *)
(* backwards: the lookup of its kmer, one step per further base, and the   *)
(* handling of the allele-encapsulated states.                             *)
(***************************************************************************)
Init ==
    /\ prg_raw = <<>>
    /\ encode_out = NotRun
    /\ encoded_prg = <<>>
    /\ masks = NoMasks
    /\ \E config \in Configs :
           /\ loaded_prg_info = load_prg_info(config.prg)
           /\ build_parameters = config.parameters
    /\ all_kmers = <<>>
    /\ built_kmer_index = <<>>
    /\ current_read = <<>>
    /\ remaining_bases = 0
    /\ current_search_states = <<>>
    /\ read_not_mapped = FALSE
    /\ pc = "get_all_kmers"
    /\ CoverageIdle
    /\ LoopsIdle

\* The build stops in get_all_kmers when next_kmer or
\* get_path_reverse_kmers does not return.
GetAllKmers ==
    /\ pc = "get_all_kmers"
    /\ \E outside_read \in OutsideReads :
           IF get_all_kmers_returns(build_parameters, loaded_prg_info, outside_read)
           THEN /\ all_kmers' = get_all_kmers(build_parameters, loaded_prg_info,
                                              outside_read)
                /\ pc' = "index_kmers"
           ELSE /\ all_kmers' = all_kmers
                /\ pc' = "no_return"
    /\ UNCHANGED <<loaded_prg_info, build_parameters, built_kmer_index, current_read,
                   remaining_bases, current_search_states, read_not_mapped>>
    /\ UNCHANGED prg_vars
    /\ UNCHANGED coverage_vars
    /\ UNCHANGED loop_vars

\* The build stops when the search of a kmer stops the process.
IndexKmers ==
    /\ pc = "index_kmers"
    /\ built_kmer_index' = index_kmers(all_kmers, loaded_prg_info)
    /\ pc' = IF \E kmer \in DOMAIN built_kmer_index' : stops(built_kmer_index'[kmer])
             THEN "process_stopped" ELSE "quasimap"
    /\ UNCHANGED <<loaded_prg_info, build_parameters, all_kmers, current_read,
                   remaining_bases, current_search_states, read_not_mapped>>
    /\ UNCHANGED prg_vars
    /\ UNCHANGED coverage_vars
    /\ UNCHANGED loop_vars

\* search_read_backwards up to its loop: a read whose kmer is not indexed,
\* or indexed with no search state, returns at once.
SearchReadBackwards ==
    /\ pc = "quasimap"
    /\ \E read \in Reads(loaded_prg_info, build_parameters) :
           LET kmer == get_kmer_from_read(build_parameters.kmers_size, read)
               kmer_in_index == kmer \in DOMAIN built_kmer_index
           IN /\ current_read' = read
              /\ IF ~kmer_in_index
                 THEN /\ current_search_states' = <<>>
                      /\ remaining_bases' = 0
                      /\ pc' = "returned"
                 ELSE IF built_kmer_index[kmer] = <<>>
                 THEN /\ current_search_states' = built_kmer_index[kmer]
                      /\ remaining_bases' = 0
                      /\ pc' = "returned"
                 ELSE /\ current_search_states' = built_kmer_index[kmer]
                      /\ remaining_bases' = Len(read) - Len(kmer)
                      /\ pc' = "read_loop"
    /\ UNCHANGED <<loaded_prg_info, build_parameters, all_kmers, built_kmer_index,
                   read_not_mapped>>
    /\ UNCHANGED prg_vars
    /\ UNCHANGED coverage_vars
    /\ UNCHANGED loop_vars

\* One iteration of the loop over the read, from its end to its start.
ProcessReadChar ==
    /\ pc = "read_loop"
    /\ remaining_bases > 0
    /\ ~read_not_mapped
    /\ LET pattern_char == current_read[remaining_bases]
           new_search_states ==
               process_read_char_search_states(pattern_char, current_search_states,
                                               loaded_prg_info)
       IN /\ current_search_states' = new_search_states
          /\ read_not_mapped' = (new_search_states = <<>>)
          /\ remaining_bases' = remaining_bases - 1
          /\ pc' = IF stops(new_search_states) THEN "process_stopped" ELSE pc
    /\ UNCHANGED <<loaded_prg_info, build_parameters, all_kmers, built_kmer_index,
                   current_read>>
    /\ UNCHANGED prg_vars
    /\ UNCHANGED coverage_vars
    /\ UNCHANGED loop_vars

\* After the loop, by its end or by its break.
HandleAlleleEncapsulatedStates ==
    /\ pc = "read_loop"
    /\ remaining_bases = 0 \/ read_not_mapped
    /\ current_search_states' =
           handle_allele_encapsulated_states(current_search_states, loaded_prg_info)
    /\ pc' = IF stops(current_search_states') THEN "process_stopped" ELSE "returned"
    /\ UNCHANGED <<loaded_prg_info, build_parameters, all_kmers, built_kmer_index,
                   current_read, remaining_bases, read_not_mapped>>
    /\ UNCHANGED prg_vars
    /\ UNCHANGED coverage_vars
    /\ UNCHANGED loop_vars

Next ==
    \/ GetAllKmers
    \/ IndexKmers
    \/ SearchReadBackwards
    \/ ProcessReadChar
    \/ HandleAlleleEncapsulatedStates

Spec == Init /\ [][Next]_vars

(***************************************************************************)
(* Specification of the coverage recording of quasimap: after the build,   *)
(* reads are mapped and their search states recorded one after the other   *)
(* onto the coverage left by the reads recorded earlier in the run.  The   *)
(* earlier reads have left every base counter at zero or one below the     *)
(* largest 16-bit value.  The PRGs have one site whose first allele has up *)
(* to MaxCoverageAlleleLen bases, next to the listed PRGs.                 *)
(***************************************************************************)
MaxRecordedReads == 2
MaxCoverageFlankLen == 2
MaxCoverageAlleleLen == 2

CoveragePrgs ==
    {pre \o <<5>> \o first \o <<6>> \o second \o <<5>> \o post :
        pre \in SeqsUpTo({1}, MaxCoverageFlankLen),
        first \in SeqsUpTo(SmallBases, MaxCoverageAlleleLen) \ {<<>>},
        second \in {<<base>> : base \in SmallBases},
        post \in {<<>>, <<1>>}}

\* With kmers_size 1 the kmers are enumerated with all_kmers_flag on: the
\* build from the PRG does not return for these PRGs.
CoverageConfigs ==
    ListedConfigs \cup
    {Config(prg, kmers_size, MaxReadSize, kmers_size = 1) :
        prg \in CoveragePrgs, kmers_size \in 1..MaxKmersSize}

EarlierCounts == {0, UINT16_MAX - 1}

\* The coverage structure with every base counter at count.
filled_structure(prg_info, count) ==
    LET empty == empty_structure(prg_info)
    IN [empty EXCEPT !.allele_base_coverage =
           [site \in DOMAIN @ |->
               [allele \in DOMAIN @[site] |->
                   [base \in DOMAIN @[site][allele] |-> count]]]]

InitCoverage ==
    /\ prg_raw = <<>>
    /\ encode_out = NotRun
    /\ encoded_prg = <<>>
    /\ masks = NoMasks
    /\ \E config \in CoverageConfigs :
           /\ loaded_prg_info = load_prg_info(config.prg)
           /\ build_parameters = config.parameters
    /\ \E outside_read \in OutsideReads :
           /\ get_all_kmers_returns(build_parameters, loaded_prg_info, outside_read)
           /\ all_kmers = get_all_kmers(build_parameters, loaded_prg_info, outside_read)
    /\ built_kmer_index = index_kmers(all_kmers, loaded_prg_info)
    /\ current_read = <<>>
    /\ remaining_bases = 0
    /\ current_search_states = <<>>
    /\ read_not_mapped = FALSE
    /\ pc = "quasimap"
    /\ allele_base_structure(loaded_prg_info) /= out_of_range
    /\ \E count \in EarlierCounts :
           coverage_before = filled_structure(loaded_prg_info, count)
    /\ quasimap_coverage = coverage_before
    /\ recorded_reads = <<>>
    /\ LoopsIdle

\* The search states of a read.
mapped_search_states(read, outside_read) ==
    search_read_backwards(read, get_kmer_from_read(build_parameters.kmers_size, read),
                          built_kmer_index, loaded_prg_info, outside_read)

\* coverage::record: the grouped allele counts and the base coverage of one
\* read.
record_search_states(coverage, search_states, read_length, prg_info) ==
    allele_base(grouped_allele_counts(coverage, search_states), search_states,
                read_length, prg_info)

\* quasimap of one read: the read is mapped and its search states recorded.
RecordReadCoverage ==
    /\ pc = "quasimap"
    /\ Len(recorded_reads) < MaxRecordedReads
    /\ \E read \in HaplotypeReads(loaded_prg_info, build_parameters),
          outside_read \in OutsideReads :
           LET search_states == mapped_search_states(read, outside_read)
           IN /\ quasimap_coverage' =
                     record_search_states(quasimap_coverage, search_states, Len(read),
                                          loaded_prg_info)
              /\ recorded_reads' =
                     Append(recorded_reads,
                            [read |-> read, search_states |-> search_states])
    /\ UNCHANGED coverage_before
    /\ UNCHANGED search_vars
    /\ UNCHANGED prg_vars
    /\ UNCHANGED loop_vars

NextCoverage == RecordReadCoverage

SpecCoverage == InitCoverage /\ [][NextCoverage]_vars

(***************************************************************************)
(* Properties of the encoder.                                              *)
(***************************************************************************)
\* The encoding the format prescribes, stated over the positions of the raw
\* text: a token ends at every DNA letter and at the last digit of every
\* maximal run of digits.
DnaCode(c) ==
    CASE c \in {65, 97} -> 1
      [] c \in {67, 99} -> 2
      [] c \in {71, 103} -> 3
      [] c \in {84, 116} -> 4

TokenEnds(raw) ==
    {i \in 1..Len(raw) :
        \/ IsDnaLetter(raw[i])
        \/ IsDigit(raw[i]) /\ (i = Len(raw) \/ ~IsDigit(raw[i + 1]))}

RunStart(raw, i) ==
    CHOOSE j \in 1..i :
        /\ \A t \in j..i : IsDigit(raw[t])
        /\ (j = 1 \/ ~IsDigit(raw[j - 1]))

Pow10(n) == IF n = 0 THEN 1 ELSE IF n = 1 THEN 10 ELSE IF n = 2 THEN 100
            ELSE IF n = 3 THEN 1000 ELSE IF n = 4 THEN 10000 ELSE 100000

DecimalValue(raw, j, i) ==
    SumOver(j..i, [t \in j..i |-> (raw[t] - 48) * Pow10(i - t)])

TokenValue(raw, i) ==
    IF IsDnaLetter(raw[i]) THEN DnaCode(raw[i])
    ELSE DecimalValue(raw, RunStart(raw, i), i)

ExpectedEncoding(raw) ==
    LET ends == TokenEnds(raw)
    IN [n \in 0..(Cardinality(ends) - 1) |->
           TokenValue(raw, CHOOSE i \in ends :
                               Cardinality({e \in ends : e < i}) = n)]

OnlyDnaAndDigits(raw) ==
    \A i \in 1..Len(raw) : IsDnaLetter(raw[i]) \/ IsDigit(raw[i])

\* C6: encode_prg maps every DNA letter (either case) to 1..4 and every maximal
\* run of digits to one symbol, the decimal number the run spells, in input
\* order; the output has one symbol per DNA letter and per digit run.
C6_EncodePrgSymbolBySymbol ==
    (encode_out.outcome = "returned" /\ OnlyDnaAndDigits(prg_raw)) =>
        /\ encode_out.encoded_prg = ExpectedEncoding(prg_raw)
        /\ size(encode_out.encoded_prg) = Cardinality(TokenEnds(prg_raw))

\* C6 witness: "a15T" has been encoded to 1 15 4.
C6_Witness ==
    /\ encode_out.outcome = "returned"
    /\ prg_raw = <<97, 49, 53, 84>>
    /\ encode_out.encoded_prg = ZeroBased(<<1, 15, 4>>)

\* C7 (as claimed): encoding a raw PRG with a byte that is neither a DNA
\* letter nor a digit fails with InvalidEncoding and produces no encoded PRG.
C7_InvalidByteFails ==
    (encode_out.outcome /= "not_run" /\ ~OnlyDnaAndDigits(prg_raw)) =>
        /\ encode_out.outcome = "InvalidEncoding"
        /\ encode_out.encoded_prg = <<>>

(***************************************************************************)
(* Properties of the masks.                                                *)
(***************************************************************************)
\* The site marker whose two occurrences enclose position i, 0 if none.
EnclosingSite(prg, i) ==
    LET enclosing == {prg[l] : l \in {t \in DOMAIN prg :
                          /\ t < i
                          /\ IsSiteMarker(prg[t])
                          /\ \E r \in DOMAIN prg : r > i /\ prg[r] = prg[t]}}
    IN IF enclosing = {} THEN 0 ELSE CHOOSE m \in enclosing : TRUE

SiteStart(prg, m) == CHOOSE l \in DOMAIN prg :
                         prg[l] = m /\ \A t \in DOMAIN prg : prg[t] = m => l <= t

\* C8: sites_mask[i] is the site marker of the site enclosing i when PRG[i] is
\* a base strictly between the two occurrences of that marker, and 0 outside
\* every site and on every marker.
C8_SitesMask ==
    "sites_mask" \in masks.generated =>
        /\ DOMAIN masks.sites_mask = DOMAIN encoded_prg
        /\ \A i \in DOMAIN encoded_prg :
               masks.sites_mask[i] =
                   IF encoded_prg[i] <= 4 THEN EnclosingSite(encoded_prg, i) ELSE 0

\* C8 witness: a PRG with site 5 and the two-digit site 13, a tagged base in
\* each, and an untagged allele marker inside a site.
C8_Witness ==
    /\ "sites_mask" \in masks.generated
    /\ \E i, j, t \in DOMAIN encoded_prg :
           /\ masks.sites_mask[i] = 5
           /\ masks.sites_mask[j] = 13
           /\ encoded_prg[t] = 14
           /\ EnclosingSite(encoded_prg, t) = 13
           /\ masks.sites_mask[t] = 0

\* C9: allele_mask[i] is 1 + the number of allele markers between the start
\* marker of the enclosing site and i when PRG[i] is a base inside a site, and
\* 0 outside every site and on every marker; the count restarts in every site.
C9_AlleleMask ==
    "allele_mask" \in masks.generated =>
        /\ DOMAIN masks.allele_mask = DOMAIN encoded_prg
        /\ \A i \in DOMAIN encoded_prg :
               masks.allele_mask[i] =
                   IF encoded_prg[i] <= 4 /\ EnclosingSite(encoded_prg, i) /= 0
                   THEN 1 + Cardinality(
                            {t \in DOMAIN encoded_prg :
                                /\ SiteStart(encoded_prg, EnclosingSite(encoded_prg, i)) < t
                                /\ t < i
                                /\ IsAlleleMarker(encoded_prg[t])})
                   ELSE 0

\* C9 witness: a second allele in a first site, and a second site whose first
\* allele is numbered 1 again.
C9_Witness ==
    /\ "allele_mask" \in masks.generated
    /\ \E i, j \in DOMAIN encoded_prg :
           /\ i < j
           /\ IsAlleleMarker(encoded_prg[i])
           /\ EnclosingSite(encoded_prg, i) /= 0
           /\ masks.allele_mask[i + 1] = 2
           /\ masks.allele_mask[j] = 1
           /\ EnclosingSite(encoded_prg, i) /= EnclosingSite(encoded_prg, j)

\* C10: the marker masks of the PRG and of the BWT have the same number of
\* set bits, so markers_mask_count_set_bits (taken from the BWT mask) is the
\* number of markers prg_markers_select can be asked for.
C10_MarkerMasksSameCount ==
    "markers_masks" \in masks.generated =>
        /\ bit_rank(masks.prg_markers_mask, size(masks.prg_markers_mask))
               = bit_rank(masks.bwt_markers_mask, size(masks.bwt_markers_mask))
        /\ masks.markers_mask_count_set_bits
               = Cardinality({i \in DOMAIN encoded_prg : encoded_prg[i] > 4})

\* C10 witness: the masks of a PRG with a site marker 5 and three further
\* markers have been generated.
C10_Witness ==
    /\ "markers_masks" \in masks.generated
    /\ masks.markers_mask_count_set_bits >= 4
    /\ \E i \in DOMAIN encoded_prg : encoded_prg[i] = 5


(***************************************************************************)
(* Properties of the kmer enumeration and of the backward search.          *)
(***************************************************************************)
CurrentKmer == get_kmer_from_read(build_parameters.kmers_size, current_read)

SaRows(search_state) == search_state.sa_interval[1]..search_state.sa_interval[2]

Sites(prg_info) ==
    {prg_info.encoded_prg[i] :
        i \in {j \in DOMAIN prg_info.encoded_prg : IsSiteMarker(prg_info.encoded_prg[j])}}

FirstIndexOf(prg_info, m) ==
    CHOOSE l \in DOMAIN prg_info.encoded_prg :
        /\ prg_info.encoded_prg[l] = m
        /\ \A t \in DOMAIN prg_info.encoded_prg : prg_info.encoded_prg[t] = m => l <= t

NumAlleles(prg_info, m) ==
    1 + Cardinality({i \in DOMAIN prg_info.encoded_prg : prg_info.encoded_prg[i] = m + 1})

\* Some row of some returned search state is the start of a place of the read.
MapsToOccurrence ==
    \E n \in 1..Len(current_search_states) :
        \E i \in SaRows(current_search_states[n]) :
            \E w \in Occurrences(loaded_prg_info, current_read) :
                loaded_prg_info.fm_index.sa[i] = w[1]

EndMarkers(prg_info) == {SiteEnd(prg_info, m) : m \in Sites(prg_info)}

\* The base at p lies inside a site or at most max_read_size - 1 positions
\* to the right of the end marker of a site.
IsCandidateEnd(prg_info, parameters, p) ==
    \/ prg_info.sites_mask[p] /= 0
    \/ \E e \in EndMarkers(prg_info) : e < p /\ p <= e + parameters.max_read_size - 1

CandidateKmers(prg_info, parameters) ==
    {Spell(prg_info, w) :
        w \in {v \in Walks(prg_info, parameters.kmers_size) :
                  IsCandidateEnd(prg_info, parameters, v[parameters.kmers_size])}}

\* C1 as stated: a read that is a string of a haplotype, of kmers_size to
\* max_read_size bases, is returned with a search state one of whose SA rows
\* is the start of a place of the read.
C1_AnyHaplotypeReadMaps ==
    (pc = "returned" /\ Occurrences(loaded_prg_info, current_read) /= {})
        => MapsToOccurrence

\* C1 amended: the same for a read whose last kmers_size bases the build
\* has to index: any read when all_kmers_flag is on, and with the flag off a
\* read whose last kmers_size bases are a candidate kmer, the string of
\* kmers_size bases of a haplotype whose last base lies inside a site or at
\* most max_read_size - 1 positions to the right of an end marker.
C1_CandidateReadMaps ==
    (/\ pc = "returned"
     /\ Occurrences(loaded_prg_info, current_read) /= {}
     /\ \/ build_parameters.all_kmers_flag
        \/ CurrentKmer \in CandidateKmers(loaded_prg_info, build_parameters))
        => MapsToOccurrence

\* C1 witness: with all_kmers_flag off, a read longer than its kmer, with a
\* place that starts outside the sites and passes through a site, has been
\* returned with a row at the start of that place.
C1_Witness ==
    /\ pc = "returned"
    /\ ~build_parameters.all_kmers_flag
    /\ Len(current_read) > build_parameters.kmers_size
    /\ CurrentKmer \in CandidateKmers(loaded_prg_info, build_parameters)
    /\ \E w \in Occurrences(loaded_prg_info, current_read) :
           /\ loaded_prg_info.sites_mask[w[1]] = 0
           /\ \E i \in 1..Len(w) : loaded_prg_info.sites_mask[w[i]] /= 0
           /\ \E n \in 1..Len(current_search_states) :
                  \E i \in SaRows(current_search_states[n]) :
                      loaded_prg_info.fm_index.sa[i] = w[1]

\* The walk has a base before site m, a base after it, and a base in its
\* allele a.
Covers(prg_info, w, m, a) ==
    /\ \E i \in 1..Len(w) : w[i] < FirstIndexOf(prg_info, m)
    /\ \E i \in 1..Len(w) : w[i] > SiteEnd(prg_info, m)
    /\ \E i \in 1..Len(w) : prg_info.sites_mask[w[i]] = m /\ prg_info.allele_mask[w[i]] = a

TouchesOnly(prg_info, w, m) ==
    \A i \in 1..Len(w) : prg_info.sites_mask[w[i]] \in {0, m}

EveryPathIs(path) ==
    /\ current_search_states /= <<>>
    /\ \A n \in 1..Len(current_search_states) :
           current_search_states[n].variant_site_path = path

\* C2 as stated: a read with exactly one place, which covers both sides of
\* site m through allele a, is returned with a non-empty list of search
\* states, each with the path [(m, a)].
C2_CoveringReadHasSinglePath ==
    pc = "returned" =>
        LET occurrences == Occurrences(loaded_prg_info, current_read)
        IN Cardinality(occurrences) = 1 =>
               \A w \in occurrences :
                   \A m \in Sites(loaded_prg_info) :
                       \A a \in 1..NumAlleles(loaded_prg_info, m) :
                           Covers(loaded_prg_info, w, m, a) => EveryPathIs(<<<<m, a>>>>)

\* C2 amended: the same for a read whose place holds no base of another
\* site.
C2_CoveringReadOfOneSiteHasSinglePath ==
    pc = "returned" =>
        LET occurrences == Occurrences(loaded_prg_info, current_read)
        IN Cardinality(occurrences) = 1 =>
               \A w \in occurrences :
                   \A m \in Sites(loaded_prg_info) :
                       \A a \in 1..NumAlleles(loaded_prg_info, m) :
                           (/\ Covers(loaded_prg_info, w, m, a)
                            /\ TouchesOnly(loaded_prg_info, w, m))
                               => EveryPathIs(<<<<m, a>>>>)

\* C2 witness: a read longer than its kmer, with one place, through the
\* second allele of one of the two sites of the PRG and no base of the other
\* site, returned with that locus only.
C2_Witness ==
    /\ pc = "returned"
    /\ Len(current_read) > build_parameters.kmers_size
    /\ Cardinality(Occurrences(loaded_prg_info, current_read)) = 1
    /\ \E w \in Occurrences(loaded_prg_info, current_read) :
           \E m \in Sites(loaded_prg_info) :
               /\ Covers(loaded_prg_info, w, m, 2)
               /\ TouchesOnly(loaded_prg_info, w, m)
               /\ Cardinality(Sites(loaded_prg_info)) = 2
               /\ EveryPathIs(<<<<m, 2>>>>)

ValidLocus(prg_info, locus) ==
    /\ IsSiteMarker(locus[1])
    /\ \E i \in DOMAIN prg_info.encoded_prg : prg_info.encoded_prg[i] = locus[1]
    /\ 1 <= locus[2]
    /\ locus[2] <= NumAlleles(prg_info, locus[1])

\* C3: every locus (m, a) on the path of a search state, from the kmer index,
\* after an extension of the read or after the handling of the
\* allele-encapsulated states, has m an odd site marker of the PRG and
\* 1 <= a <= the number of alleles of site m.
C3_LociAreValid ==
    \A n \in 1..Len(current_search_states) :
        \A l \in 1..Len(current_search_states[n].variant_site_path) :
            ValidLocus(loaded_prg_info, current_search_states[n].variant_site_path[l])

\* C3 witness: a returned search state whose path holds two loci, the second
\* through the last allele of its site.
C3_Witness ==
    /\ pc = "returned"
    /\ \E n \in 1..Len(current_search_states) :
           LET path == current_search_states[n].variant_site_path
           IN /\ Len(path) = 2
              /\ path[1][1] /= path[2][1]
              /\ path[2][2] = NumAlleles(loaded_prg_info, path[2][1])

\* C4: with all_kmers_flag off, the enumerated kmers hold every string of
\* kmers_size bases of a haplotype whose last base lies inside a site or at
\* most max_read_size - 1 positions to the right of the end marker of a site.
C4_NoCandidateKmerMissed ==
    (pc \notin {"get_all_kmers", "no_return"} /\ ~build_parameters.all_kmers_flag) =>
        CandidateKmers(loaded_prg_info, build_parameters)
            \subseteq {all_kmers[n] : n \in 1..Len(all_kmers)}

\* C4 witness: with all_kmers_flag off, the kmers enumerated for a PRG of two
\* sites hold a kmer that starts in the second allele of a site and ends
\* right of its end marker, and a kmer that ends max_read_size - 1 positions
\* to the right of an end marker.
C4_Witness ==
    /\ pc = "index_kmers"
    /\ ~build_parameters.all_kmers_flag
    /\ Cardinality(Sites(loaded_prg_info)) = 2
    /\ \E m \in Sites(loaded_prg_info) :
           \E w \in Walks(loaded_prg_info, build_parameters.kmers_size) :
               /\ loaded_prg_info.sites_mask[w[1]] = m
               /\ loaded_prg_info.allele_mask[w[1]] = 2
               /\ w[build_parameters.kmers_size] > SiteEnd(loaded_prg_info, m)
               /\ \E n \in 1..Len(all_kmers) : all_kmers[n] = Spell(loaded_prg_info, w)
    /\ \E e \in EndMarkers(loaded_prg_info) :
           \E w \in Walks(loaded_prg_info, build_parameters.kmers_size) :
               /\ w[build_parameters.kmers_size] = e + build_parameters.max_read_size - 1
               /\ loaded_prg_info.sites_mask[w[build_parameters.kmers_size]] = 0
               /\ \E n \in 1..Len(all_kmers) : all_kmers[n] = Spell(loaded_prg_info, w)

\* C5: search_read_backwards returns no search state when the kmer of the
\* read is not in the index, when it is indexed with no search state, and
\* when an extension of the read leaves no search state; after such an
\* extension no further base is processed and the handling of the
\* allele-encapsulated states adds nothing.
C5_UnmappedReadReturnsEmpty ==
    /\ [](pc = "returned" =>
             ((\/ CurrentKmer \notin DOMAIN built_kmer_index
               \/ built_kmer_index[CurrentKmer] = <<>>
               \/ read_not_mapped)
                  => current_search_states = <<>>))
    /\ [][read_not_mapped =>
             (remaining_bases' = remaining_bases /\ current_search_states' = <<>>)]_vars

\* C5 witness: a read returned with no search state after an extension that
\* left none, with bases of the read not processed.
C5_Witness ==
    /\ pc = "returned"
    /\ read_not_mapped
    /\ remaining_bases > 0
    /\ current_search_states = <<>>

(***************************************************************************)
(* Properties of the coverage recording.                                   *)
(***************************************************************************)
\* The positions <<site, allele, base>> of the base counters of a coverage
\* structure, and the counter at a position.
BaseCounters(coverage) ==
    {<<site, allele, base>> \in
         (DOMAIN coverage.allele_base_coverage) \X (0..MaxMaskPrgLen + MaxRawLen) \X (0..MaxMaskPrgLen + MaxRawLen) :
         /\ allele \in DOMAIN coverage.allele_base_coverage[site]
         /\ base \in DOMAIN coverage.allele_base_coverage[site][allele]}

BaseCount(coverage, position) ==
    coverage.allele_base_coverage[position[1]][position[2]][position[3]]

\* C11: within one call of coverage::record::allele_base no base counter is
\* incremented more than once, whatever the number, order and extents of the
\* hits on the same locus.
C11_NoBaseCountedTwice ==
    [][\A position \in BaseCounters(quasimap_coverage) :
           BaseCount(quasimap_coverage', position) <= BaseCount(quasimap_coverage, position) + 1]_vars

\* The increments the recorded reads request of a base counter: what each
\* read adds to a zeroed coverage, summed over the reads.
RequestedIncrements(reads, position) ==
    SumOver(DOMAIN reads,
            [n \in DOMAIN reads |->
                BaseCount(allele_base(empty_structure(loaded_prg_info), reads[n].search_states,
                                      Len(reads[n].read), loaded_prg_info),
                          position)])

Saturated(count) == IF count < UINT16_MAX THEN count ELSE UINT16_MAX

\* C12: base counters saturate: after any sequence of recorded reads every
\* counter holds the number of increments requested of it (with those of the
\* earlier reads), or 65535 if that number is larger; a counter at 65535 stays
\* at 65535.
C12_CountersSaturate ==
    \A position \in BaseCounters(quasimap_coverage) :
        BaseCount(quasimap_coverage, position) =
            Saturated(BaseCount(coverage_before, position)
                      + RequestedIncrements(recorded_reads, position))

\* Two increments were requested of a counter one below the largest value.
C12_Witness ==
    \E position \in BaseCounters(quasimap_coverage) :
        /\ BaseCount(coverage_before, position) = UINT16_MAX - 1
        /\ RequestedIncrements(recorded_reads, position) >= 2
        /\ BaseCount(quasimap_coverage, position) = UINT16_MAX

\* The orders of n reads, and the reads rearranged in one of them.
Orders(n) == {order \in [1..n -> 1..n] : \A i, j \in 1..n : order[i] = order[j] => i = j}

Rearranged(seq, order) == [n \in 1..Len(seq) |-> seq[order[n]]]

\* The coverage after recording reads, one after the other, onto coverage.
RECURSIVE RecordedOnto(_, _)
RecordedOnto(coverage, reads) ==
    IF reads = <<>> THEN coverage
    ELSE RecordedOnto(record_search_states(coverage, Head(reads).search_states,
                                           Len(Head(reads).read), loaded_prg_info),
                      Tail(reads))

\* C13: recording the same reads in any order yields the same coverage: the
\* coverage equals the one obtained by recording the reads in each of their
\* permutations.
C13_ReadOrderIrrelevant ==
    \A order \in Orders(Len(recorded_reads)) :
        quasimap_coverage =
            RecordedOnto(coverage_before, Rearranged(recorded_reads, order))

\* Two different reads were recorded that increment a common base counter,
\* one of them another counter as well.
C13_Witness ==
    /\ Len(recorded_reads) = 2
    /\ recorded_reads[1].read /= recorded_reads[2].read
    /\ quasimap_coverage /= coverage_before
    /\ \E position \in BaseCounters(quasimap_coverage) :
           /\ RequestedIncrements(<<recorded_reads[1]>>, position) > 0
           /\ RequestedIncrements(<<recorded_reads[2]>>, position) > 0
    /\ \E position \in BaseCounters(quasimap_coverage) :
           RequestedIncrements(<<recorded_reads[1]>>, position)
               /= RequestedIncrements(<<recorded_reads[2]>>, position)

\* The reads of seq at the given indices, from index n on, in their order.
RECURSIVE Selected(_, _, _)
Selected(seq, indices, n) ==
    IF n > Len(seq) THEN <<>>
    ELSE (IF n \in indices THEN <<seq[n]>> ELSE <<>>) \o Selected(seq, indices, n + 1)

\* A split of the read set in two parts: the first part holds the earlier
\* reads, whose coverage is coverage_before, and the recorded reads at the
\* indices; the second part holds the other recorded reads and is recorded
\* from zeroed coverage.
FirstPartCount(indices, position) ==
    BaseCount(RecordedOnto(coverage_before, Selected(recorded_reads, indices, 1)), position)

SecondPartCount(indices, position) ==
    BaseCount(RecordedOnto(empty_structure(loaded_prg_info),
                           Selected(recorded_reads, (1..Len(recorded_reads)) \ indices, 1)),
              position)

\* C14 as stated: for any split of the read set into two parts, the counters
\* of the whole set are the element-wise sums of the counters of the parts.
C14_WholeIsSumOfParts ==
    \A indices \in SUBSET (1..Len(recorded_reads)) :
        \A position \in BaseCounters(quasimap_coverage) :
            BaseCount(quasimap_coverage, position) =
                FirstPartCount(indices, position) + SecondPartCount(indices, position)

\* C14, amended: for any split of the read set into two parts, the counters
\* of the whole set are the element-wise sums of the counters of the parts,
\* capped at 65535.
C14_WholeIsCappedSumOfParts ==
    \A indices \in SUBSET (1..Len(recorded_reads)) :
        \A position \in BaseCounters(quasimap_coverage) :
            BaseCount(quasimap_coverage, position) =
                Saturated(FirstPartCount(indices, position)
                          + SecondPartCount(indices, position))

\* Both parts of a split count the same base; the sum of the two counts is
\* above the cap, or the earlier reads left the counter at zero.
C14_Witness ==
    /\ Len(recorded_reads) = 2
    /\ \E position \in BaseCounters(quasimap_coverage) :
           /\ FirstPartCount({1}, position) > BaseCount(coverage_before, position)
           /\ SecondPartCount({1}, position) > 0
           /\ \/ FirstPartCount({1}, position) + SecondPartCount({1}, position) > UINT16_MAX
              \/ BaseCount(coverage_before, position) = 0

\* The 0-based allele ids that the paths of the search states give for the
\* site of a marker.
PathAlleleIds(search_states, site_marker) ==
    {id \in 0..MaxMaskPrgLen + MaxRawLen :
        \E n \in 1..Len(search_states) :
            \E l \in 1..Len(search_states[n].variant_site_path) :
                search_states[n].variant_site_path[l] = <<site_marker, id + 1>>}

\* The key is the sorted duplicate-free sequence of the ids.
IsGroupOf(key, ids) ==
    /\ {key[i] : i \in 1..Len(key)} = ids
    /\ \A i, j \in 1..Len(key) : i < j => key[i] < key[j]

\* C15: one call of coverage::record::grouped_allele_counts increments by
\* exactly one, for each site on the path of at least one search state, the
\* counter keyed by the sorted duplicate-free 0-based allele ids of the paths
\* for that site; a site on no path gets no entry, all other counters are
\* unchanged, and a counter incremented before accumulates.
C15_GroupedAlleleCounts ==
    [][\A site \in DOMAIN quasimap_coverage.grouped_allele_counts :
           LET search_states == recorded_reads'[Len(recorded_reads')].search_states
               ids == PathAlleleIds(search_states, min_boundary_marker + 2 * site)
               old == quasimap_coverage.grouped_allele_counts[site]
               new == quasimap_coverage'.grouped_allele_counts[site]
           IN IF ids = {} THEN new = old
              ELSE \E key \in DOMAIN new :
                       /\ IsGroupOf(key, ids)
                       /\ DOMAIN new = DOMAIN old \cup {key}
                       /\ new[key] = (IF key \in DOMAIN old THEN old[key] ELSE 0) + 1
                       /\ \A other \in DOMAIN old \ {key} : new[other] = old[other]]_vars

\* Two reads were recorded on a PRG of two sites: a counter keyed by two
\* allele ids was incremented twice, and the other site, on no path, has no
\* entry.
C15_Witness ==
    /\ Len(recorded_reads) = 2
    /\ \E site \in DOMAIN quasimap_coverage.grouped_allele_counts :
           \E key \in DOMAIN quasimap_coverage.grouped_allele_counts[site] :
               /\ Len(key) >= 2
               /\ quasimap_coverage.grouped_allele_counts[site][key] = 2
    /\ \E site \in DOMAIN quasimap_coverage.grouped_allele_counts :
           quasimap_coverage.grouped_allele_counts[site] = <<>>

(***************************************************************************)
(* Properties of the enumeration of all kmers.                             *)
(***************************************************************************)
AllKmersEnumerated ==
    pc \notin {"get_all_kmers", "no_return"} /\ build_parameters.all_kmers_flag

\* Every string of kmers_size bases occurs exactly once in all_kmers.
EveryKmerOnce ==
    /\ {all_kmers[n] : n \in 1..Len(all_kmers)} = [1..build_parameters.kmers_size -> 1..4]
    /\ \A m, n \in 1..Len(all_kmers) : all_kmers[m] = all_kmers[n] => m = n

LexicographicallyBefore(lhs, rhs) ==
    \E i \in 1..Len(lhs) :
        /\ lhs[i] < rhs[i]
        /\ \A j \in 1..(i - 1) : lhs[j] = rhs[j]

\* C16 as stated: with all_kmers_flag set, get_all_kmers returns every string
\* of kmers_size bases over {1,2,3,4} exactly once, whatever the PRG, in
\* lexicographic order.
C16_AllKmersInLexicographicOrder ==
    AllKmersEnumerated =>
        /\ EveryKmerOnce
        /\ \A n \in 1..(Len(all_kmers) - 1) :
               LexicographicallyBefore(all_kmers[n], all_kmers[n + 1])

\* C16, amended: with all_kmers_flag set, get_all_kmers returns every string
\* of kmers_size bases over {1,2,3,4} exactly once, whatever the PRG, in the
\* lexicographic order of the kmers read from right to left.
C16_AllKmersInReverseLexicographicOrder ==
    AllKmersEnumerated =>
        /\ EveryKmerOnce
        /\ \A n \in 1..(Len(all_kmers) - 1) :
               LexicographicallyBefore(ReverseSeq(all_kmers[n]), ReverseSeq(all_kmers[n + 1]))

\* All sixteen kmers of two bases were enumerated for a PRG with a site.
C16_Witness ==
    /\ AllKmersEnumerated
    /\ build_parameters.kmers_size = 2
    /\ Len(all_kmers) = 16
    /\ all_kmers[2] = <<2, 1>>
    /\ Sites(loaded_prg_info) /= {}

(***************************************************************************)
(* Properties of one extension step of the backward search.                *)
(***************************************************************************)
\* The lists of search states an extension step can start from: the entries
\* of the kmer index, looked at once the index is built, and the search
\* states of the read being searched.
ExtensionInputs ==
    IF pc = "quasimap" THEN {built_kmer_index[kmer] : kmer \in DOMAIN built_kmer_index}
    ELSE IF pc = "read_loop" THEN {current_search_states}
    ELSE {}

\* The DNA extension as the claim states it: the next interval from C and the
\* ranks of the BWT, the states with an empty next interval dropped.
StatedDnaExtension(c, search_states, prg_info) ==
    LET fm_index == prg_info.fm_index
        first == fm_index.C[char2comp(fm_index, c)]
        extended ==
            [n \in 1..Len(search_states) |->
                [search_states[n] EXCEPT !.sa_interval =
                    <<first + bwt_rank(fm_index, search_states[n].sa_interval[1], c),
                      first + bwt_rank(fm_index, search_states[n].sa_interval[2] + 1, c) - 1>>]]
    IN SelectSeq(extended, LAMBDA state : state.sa_interval[1] <= state.sa_interval[2])

\* C17: the DNA extension of a state with interval [lo, hi] by a base c gives
\* [C[c] + rank(c, lo), C[c] + rank(c, hi + 1) - 1]; search_base_backwards
\* drops the state exactly when that interval is empty and otherwise emits it
\* with the new interval, path and site state unchanged, the surviving states
\* in their relative order.
C17_DnaExtension ==
    \A search_states \in ExtensionInputs :
        \A c \in 1..4 :
            LET post_markers_search_states ==
                    process_markers_search_states(search_states, loaded_prg_info)
            IN search_base_backwards(c, post_markers_search_states, loaded_prg_info)
                   = StatedDnaExtension(c, post_markers_search_states, loaded_prg_info)

\* The next base of the read drops one state and keeps two others, one of
\* them with a path, with a new interval.
C17_Witness ==
    /\ pc = "read_loop"
    /\ remaining_bases > 0
    /\ LET post_markers_search_states ==
               process_markers_search_states(current_search_states, loaded_prg_info)
           new_search_states ==
               search_base_backwards(current_read[remaining_bases],
                                     post_markers_search_states, loaded_prg_info)
       IN /\ Len(new_search_states) >= 2
          /\ Len(new_search_states) < Len(post_markers_search_states)
          /\ \E n \in 1..Len(new_search_states) :
                 /\ new_search_states[n].variant_site_path /= <<>>
                 /\ \A m \in 1..Len(post_markers_search_states) :
                        post_markers_search_states[m].sa_interval
                            /= new_search_states[n].sa_interval

\* The rows of the SA interval of a search state with a marker to their left.
MarkerRows(search_state, prg_info) ==
    {i \in SaRows(search_state) : prg_info.bwt_markers_mask[i] = 1}

\* The marker to the left of row i is the second occurrence of a site marker
\* (the end boundary of the site), or its first occurrence (the start
\* boundary).
IsEndBoundaryRow(i, prg_info) ==
    /\ IsSiteMarker(prg_info.fm_index.bwt[i])
    /\ prg_info.fm_index.sa[i] - 1 = SiteEnd(prg_info, prg_info.fm_index.bwt[i])

IsStartBoundaryRow(i, prg_info) ==
    /\ IsSiteMarker(prg_info.fm_index.bwt[i])
    /\ prg_info.fm_index.sa[i] - 1 = FirstIndexOf(prg_info, prg_info.fm_index.bwt[i])

\* The number of states the markers to the left of a search state give: one
\* per allele for the end boundary of a site, one for every other marker.
MarkerDerivedCount(search_state, prg_info) ==
    SumOver(MarkerRows(search_state, prg_info),
            [i \in MarkerRows(search_state, prg_info) |->
                IF IsEndBoundaryRow(i, prg_info)
                THEN NumAlleles(prg_info, prg_info.fm_index.bwt[i])
                ELSE 1])

\* C18: in every extension step the markers are handled before the DNA
\* extension; the marker handling returns the input states unchanged and in
\* their order, followed by the states made from the markers, and returns
\* the input as it is when no row of an input interval has a marker to its
\* left.
C18_MarkersBeforeDnaExtension ==
    [][(pc = "read_loop" /\ remaining_bases' /= remaining_bases) =>
           LET post_markers_search_states ==
                   process_markers_search_states(current_search_states, loaded_prg_info)
               inputs == 1..Len(current_search_states)
           IN /\ SubSeq(post_markers_search_states, 1, Len(current_search_states))
                     = current_search_states
              /\ Len(post_markers_search_states) =
                     Len(current_search_states)
                     + SumOver(inputs, [n \in inputs |->
                                   MarkerDerivedCount(current_search_states[n], loaded_prg_info)])
              /\ (\A n \in inputs : MarkerRows(current_search_states[n], loaded_prg_info) = {})
                     => post_markers_search_states = current_search_states
              /\ current_search_states' =
                     search_base_backwards(current_read[remaining_bases],
                                           post_markers_search_states, loaded_prg_info)]_vars

\* After a first extension step, the next step starts from two or more
\* states with a marker to the left of one of them.
C18_Witness ==
    /\ pc = "read_loop"
    /\ remaining_bases > 0
    /\ remaining_bases < Len(current_read) - build_parameters.kmers_size
    /\ Len(current_search_states) >= 2
    /\ \E n \in 1..Len(current_search_states) :
           MarkerRows(current_search_states[n], loaded_prg_info) /= {}
    /\ Len(process_markers_search_states(current_search_states, loaded_prg_info))
           > Len(current_search_states)

\* C19: when the marker handling meets the end boundary of site m, it emits
\* one state per allele of the site: each with an SA interval of one row,
\* inside the site, the old path with (m, a) put in front, the allele ids a
\* being 1..num_alleles(m), each once; the row of the state of allele a is
\* the row of the marker that ends allele a.
C19_EnteringSite ==
    \A search_states \in ExtensionInputs :
        \A n \in 1..Len(search_states) :
            \A i \in MarkerRows(search_states[n], loaded_prg_info) :
                IsEndBoundaryRow(i, loaded_prg_info) =>
                    LET m == loaded_prg_info.fm_index.bwt[i]
                        emitted == process_boundary_marker(m, i, search_states[n],
                                                           loaded_prg_info)
                    IN /\ Len(emitted) = NumAlleles(loaded_prg_info, m)
                       /\ {emitted[e].variant_site_path[1][2] : e \in 1..Len(emitted)}
                              = 1..NumAlleles(loaded_prg_info, m)
                       /\ \A e \in 1..Len(emitted) :
                              LET row == emitted[e].sa_interval[1]
                                  marker_index == loaded_prg_info.fm_index.sa[row]
                              IN /\ emitted[e].sa_interval[2] = row
                                 /\ emitted[e].variant_site_state = within_variant_site
                                 /\ emitted[e].variant_site_path[1][1] = m
                                 /\ Tail(emitted[e].variant_site_path)
                                        = search_states[n].variant_site_path
                                 /\ loaded_prg_info.encoded_prg[marker_index] \in {m, m + 1}
                                 /\ loaded_prg_info.sites_mask[marker_index - 1] = m
                                 /\ loaded_prg_info.allele_mask[marker_index - 1]
                                        = emitted[e].variant_site_path[1][2]

\* A state with a locus on its path meets the end boundary of a site of three
\* alleles during the search of a read.
C19_Witness ==
    /\ pc = "read_loop"
    /\ remaining_bases > 0
    /\ \E n \in 1..Len(current_search_states) :
           \E i \in MarkerRows(current_search_states[n], loaded_prg_info) :
               /\ IsEndBoundaryRow(i, loaded_prg_info)
               /\ NumAlleles(loaded_prg_info, loaded_prg_info.fm_index.bwt[i]) = 3
               /\ Len(process_boundary_marker(loaded_prg_info.fm_index.bwt[i], i,
                                              current_search_states[n], loaded_prg_info)) = 3
               /\ current_search_states[n].variant_site_path /= <<>>

\* C20: when the marker handling meets the start boundary of site m, it emits
\* exactly one state: its SA interval is the row of that occurrence of the
\* marker, it is outside the site, and its path is the old path, with (m, 1)
\* put in front if the old path was empty.
C20_ExitingSite ==
    \A search_states \in ExtensionInputs :
        \A n \in 1..Len(search_states) :
            \A i \in MarkerRows(search_states[n], loaded_prg_info) :
                IsStartBoundaryRow(i, loaded_prg_info) =>
                    LET m == loaded_prg_info.fm_index.bwt[i]
                        emitted == process_boundary_marker(m, i, search_states[n],
                                                           loaded_prg_info)
                        row == emitted[1].sa_interval[1]
                    IN /\ Len(emitted) = 1
                       /\ emitted[1].sa_interval[2] = row
                       /\ loaded_prg_info.fm_index.sa[row] = FirstIndexOf(loaded_prg_info, m)
                       /\ emitted[1].variant_site_state = outside_variant_site
                       /\ emitted[1].variant_site_path =
                              IF search_states[n].variant_site_path = <<>>
                              THEN <<<<m, 1>>>>
                              ELSE search_states[n].variant_site_path

\* During the search of a read, a state with an empty path and a state with
\* a path both meet the start boundary of a site.
C20_Witness ==
    /\ pc = "read_loop"
    /\ remaining_bases > 0
    /\ \E n \in 1..Len(current_search_states) :
           \E i \in MarkerRows(current_search_states[n], loaded_prg_info) :
               /\ IsStartBoundaryRow(i, loaded_prg_info)
               /\ current_search_states[n].variant_site_path = <<>>
    /\ \E n \in 1..Len(current_search_states) :
           \E i \in MarkerRows(current_search_states[n], loaded_prg_info) :
               /\ IsStartBoundaryRow(i, loaded_prg_info)
               /\ current_search_states[n].variant_site_path /= <<>>

\* C21: when the marker handling meets an allele marker m to the left of row
\* i, it emits exactly one state: its SA interval is the row of the first
\* occurrence of the site marker m - 1, it is outside the site, and its path
\* is the old path, with (m - 1, allele_mask[SA[i]]) put in front if the old
\* path was empty; that allele is an allele of site m - 1.
C21_AlleleMarker ==
    \A search_states \in ExtensionInputs :
        \A n \in 1..Len(search_states) :
            \A i \in MarkerRows(search_states[n], loaded_prg_info) :
                IsAlleleMarker(loaded_prg_info.fm_index.bwt[i]) =>
                    LET m == loaded_prg_info.fm_index.bwt[i]
                        handled_markers == left_markers_search(search_states[n], loaded_prg_info)
                        position == CHOOSE k \in 1..Len(handled_markers) : handled_markers[k][1] = i
                        emitted == process_markers_search_state(
                                       [search_states[n] EXCEPT !.sa_interval = <<i, i>>],
                                       loaded_prg_info)
                        row == emitted[1].sa_interval[1]
                        right_of_marker == loaded_prg_info.fm_index.sa[i]
                    IN /\ handled_markers[position] = <<i, m>>
                       /\ Len(emitted) = 1
                       /\ emitted[1] = process_allele_marker(m, i, search_states[n],
                                                             loaded_prg_info)
                       /\ emitted[1].sa_interval[2] = row
                       /\ loaded_prg_info.fm_index.sa[row]
                              = FirstIndexOf(loaded_prg_info, m - 1)
                       /\ emitted[1].variant_site_state = outside_variant_site
                       /\ loaded_prg_info.sites_mask[right_of_marker] = m - 1
                       /\ loaded_prg_info.allele_mask[right_of_marker] >= 2
                       /\ emitted[1].variant_site_path =
                              IF search_states[n].variant_site_path = <<>>
                              THEN <<<<m - 1, loaded_prg_info.allele_mask[right_of_marker]>>>>
                              ELSE search_states[n].variant_site_path

\* During the search of a read, a state with an empty path and a state with
\* a path both meet an allele marker.
C21_Witness ==
    /\ pc = "read_loop"
    /\ remaining_bases > 0
    /\ \E n \in 1..Len(current_search_states) :
           \E i \in MarkerRows(current_search_states[n], loaded_prg_info) :
               /\ IsAlleleMarker(loaded_prg_info.fm_index.bwt[i])
               /\ current_search_states[n].variant_site_path = <<>>
    /\ \E n \in 1..Len(current_search_states) :
           \E i \in MarkerRows(current_search_states[n], loaded_prg_info) :
               /\ IsAlleleMarker(loaded_prg_info.fm_index.bwt[i])
               /\ current_search_states[n].variant_site_path /= <<>>

\* The SA rows with an odd site marker to their left, looked at once the
\* index is built.
SiteMarkerRows ==
    IF pc = "quasimap"
    THEN {i \in DOMAIN loaded_prg_info.fm_index.bwt :
              IsSiteMarker(loaded_prg_info.fm_index.bwt[i])}
    ELSE {}

\* C22: for every SA row i with a site marker m to its left,
\* site_boundary_marker_info gives the row C[m] + rank(m, i); it is one of the
\* two rows of m, its PRG position is SA[i] - 1, and is_start_boundary holds
\* exactly when that position is the first of the two occurrences of m.
C22_SiteBoundaryMarkerInfo ==
    \A i \in SiteMarkerRows :
        LET fm_index == loaded_prg_info.fm_index
            m == fm_index.bwt[i]
            info == site_boundary_marker_info(m, i, loaded_prg_info)
            marker_sa_index == info.sa_interval[1]
            rows_of_m == {r \in DOMAIN fm_index.sa :
                              /\ fm_index.sa[r] \in DOMAIN loaded_prg_info.encoded_prg
                              /\ loaded_prg_info.encoded_prg[fm_index.sa[r]] = m}
        IN /\ info.sa_interval[2] = marker_sa_index
           /\ marker_sa_index = fm_index.C[char2comp(fm_index, m)] + bwt_rank(fm_index, i, m)
           /\ Cardinality(rows_of_m) = 2
           /\ marker_sa_index \in rows_of_m
           /\ fm_index.sa[marker_sa_index] = fm_index.sa[i] - 1
           /\ info.is_start_boundary
                  = (fm_index.sa[marker_sa_index] = FirstIndexOf(loaded_prg_info, m))
           /\ ~info.is_start_boundary
                  = (fm_index.sa[marker_sa_index] = SiteEnd(loaded_prg_info, m))
           /\ info.marker_char = m

\* The index of a PRG of two sites is built: the start boundary of one site
\* is on the second of the two rows of its marker.
C22_Witness ==
    /\ pc = "quasimap"
    /\ Cardinality(Sites(loaded_prg_info)) = 2
    /\ \E i \in SiteMarkerRows :
           LET info == site_boundary_marker_info(loaded_prg_info.fm_index.bwt[i], i,
                                                 loaded_prg_info)
           IN /\ info.is_start_boundary
              /\ info.sa_interval[1] /=
                     loaded_prg_info.fm_index.C[char2comp(loaded_prg_info.fm_index,
                                                          loaded_prg_info.fm_index.bwt[i])]

\* The search states at the end of the loop over a read, which are handed to
\* handle_allele_encapsulated_states.
EncapsulationInputs ==
    IF pc = "read_loop" /\ (remaining_bases = 0 \/ read_not_mapped)
    THEN current_search_states
    ELSE <<>>

Locus(sa_index, prg_info) ==
    <<prg_info.sites_mask[prg_info.fm_index.sa[sa_index]],
      prg_info.allele_mask[prg_info.fm_index.sa[sa_index]]>>

\* The intervals a state with an empty path is to be split into: one row for
\* each row outside the sites, and each maximal run of rows of one locus.
LocusRuns(sa_interval, prg_info) ==
    {run \in (sa_interval[1]..sa_interval[2]) \X (sa_interval[1]..sa_interval[2]) :
        /\ run[1] <= run[2]
        /\ \A r \in run[1]..run[2] : Locus(r, prg_info) = Locus(run[1], prg_info)
        /\ IF Locus(run[1], prg_info)[1] = 0
           THEN run[1] = run[2]
           ELSE /\ run[1] = sa_interval[1]
                   \/ Locus(run[1] - 1, prg_info) /= Locus(run[1], prg_info)
                /\ run[2] = sa_interval[2]
                   \/ Locus(run[2] + 1, prg_info) /= Locus(run[2], prg_info)}

\* split lists the runs of the interval in increasing order, each with the
\* path of its locus.
IsSplitOf(split, sa_interval, prg_info) ==
    /\ {split[n].sa_interval : n \in 1..Len(split)} = LocusRuns(sa_interval, prg_info)
    /\ \A n \in 1..Len(split) :
           LET locus == Locus(split[n].sa_interval[1], prg_info)
           IN /\ split[n].variant_site_path =
                     IF locus[1] = 0 THEN <<>> ELSE <<locus>>
              /\ split[n].variant_site_state =
                     IF locus[1] = 0 THEN outside_variant_site ELSE within_variant_site
    /\ split /= <<>> =>
           /\ split[1].sa_interval[1] = sa_interval[1]
           /\ split[Len(split)].sa_interval[2] = sa_interval[2]
    /\ \A n \in 1..(Len(split) - 1) :
           split[n].sa_interval[2] + 1 = split[n + 1].sa_interval[1]

\* C23: handle_allele_encapsulated_states keeps every state with a path as
\* it is and puts, in the place of every state with an empty path, the runs
\* of its SA interval: disjoint, increasing, covering the interval, one state
\* with the path [(site, allele)] for each maximal run of rows of one locus,
\* states with an empty path for the rows outside the sites; the assertions
\* of update_sa_interval_max hold.
C23_AlleleEncapsulatedStates ==
    LET search_states == EncapsulationInputs
        splits == [n \in 1..Len(search_states) |->
                      IF search_states[n].variant_site_path /= <<>>
                      THEN <<search_states[n]>>
                      ELSE handle_allele_encapsulated_state(search_states[n],
                                                            loaded_prg_info)]
    IN /\ handle_allele_encapsulated_states(search_states, loaded_prg_info)
              = Flatten(splits)
       /\ \A n \in 1..Len(search_states) :
              search_states[n].variant_site_path = <<>> =>
                  /\ IsSplitOf(splits[n], search_states[n].sa_interval, loaded_prg_info)
                  /\ handle_allele_encapsulated_state_run(search_states[n],
                                                          loaded_prg_info).asserts_hold

\* At the end of a read, a state with a path is kept and a state with an
\* empty path is split into a run of two rows of one allele and a row
\* outside the sites.
C23_Witness ==
    /\ \E n \in 1..Len(EncapsulationInputs) :
           EncapsulationInputs[n].variant_site_path /= <<>>
    /\ \E n \in 1..Len(EncapsulationInputs) :
           /\ EncapsulationInputs[n].variant_site_path = <<>>
           /\ LET split == handle_allele_encapsulated_state(EncapsulationInputs[n],
                                                            loaded_prg_info)
              IN /\ \E j \in 1..Len(split) :
                        /\ split[j].variant_site_path /= <<>>
                        /\ split[j].sa_interval[1] < split[j].sa_interval[2]
                 /\ \E j \in 1..Len(split) : split[j].variant_site_path = <<>>

AlleleStartIndex(prg_info, m, allele_id) ==
    CHOOSE l \in DOMAIN prg_info.encoded_prg :
        /\ prg_info.sites_mask[l] = m /\ prg_info.allele_mask[l] = allele_id
        /\ \A t \in DOMAIN prg_info.encoded_prg :
               prg_info.sites_mask[t] = m /\ prg_info.allele_mask[t] = allele_id => l <= t

\* The loci of path that are left when a read of bases_left bases is laid on
\* the PRG from position q on, taking at each site it enters the allele the
\* path names; NoWalk when the read leaves the PRG, or enters a site that is
\* not the next site of the path.
NoWalk == <<<<0, 0>>>>

RECURSIVE PathLeft(_, _, _, _)
PathLeft(q, bases_left, path, prg_info) ==
    IF bases_left = 0 THEN path
    ELSE IF q > last_prg_index(prg_info) THEN NoWalk
    ELSE IF prg_info.encoded_prg[q] <= 4
    THEN PathLeft(q + 1, bases_left - 1, path, prg_info)
    ELSE LET c == prg_info.encoded_prg[q]
             m == IF c % 2 = 1 THEN c ELSE c - 1
         IN IF c = m /\ q = FirstIndexOf(prg_info, m)
            THEN IF path = <<>> \/ path[1][1] /= m
                    \/ path[1][2] \notin 1..NumAlleles(prg_info, m)
                 THEN NoWalk
                 ELSE PathLeft(AlleleStartIndex(prg_info, m, path[1][2]),
                               bases_left, Tail(path), prg_info)
            ELSE PathLeft(SiteEnd(prg_info, m) + 1, bases_left, path, prg_info)

\* The path of the state lists the loci of the read laid on the PRG from the
\* position of row sa_index on, and no other.
PathIsOfRead(sa_index, read_length, search_state, prg_info) ==
    LET read_start_index == prg_info.fm_index.sa[sa_index]
        path == search_state.variant_site_path
    IN /\ read_start_index \in DOMAIN prg_info.encoded_prg
       /\ prg_info.encoded_prg[read_start_index] <= 4
       /\ prg_info.sites_mask[read_start_index] /= 0
              => path[1] = Locus(read_start_index, prg_info)
       /\ PathLeft(read_start_index, read_length,
                   IF prg_info.sites_mask[read_start_index] /= 0
                   THEN Tail(path) ELSE path,
                   prg_info) = <<>>

\* The mapping instances of a searched read: a search state with a path, and
\* one row of its SA interval, the path being that of the read laid on the
\* PRG from the row.
MappingInstances ==
    IF pc = "returned"
    THEN UNION {{<<current_search_states[n], sa_index>> :
                    sa_index \in {r \in SaRows(current_search_states[n]) :
                                     PathIsOfRead(r, Len(current_read),
                                                  current_search_states[n],
                                                  loaded_prg_info)}} :
                n \in {x \in 1..Len(current_search_states) :
                          current_search_states[x].variant_site_path /= <<>>}}
    ELSE {}

\* The PRG positions of the bases a read of bases_left bases lies on, from
\* position q on, taking at each site it enters the allele its path names.
RECURSIVE OverlappedBases(_, _, _, _)
OverlappedBases(q, bases_left, path, prg_info) ==
    IF bases_left = 0 \/ q > last_prg_index(prg_info) THEN {}
    ELSE IF prg_info.encoded_prg[q] <= 4
    THEN {q} \cup OverlappedBases(q + 1, bases_left - 1, path, prg_info)
    ELSE LET c == prg_info.encoded_prg[q]
             m == IF c % 2 = 1 THEN c ELSE c - 1
         IN IF c = m /\ q = FirstIndexOf(prg_info, m)
            THEN IF path = <<>> \/ path[1][1] /= m THEN {}
                 ELSE OverlappedBases(AlleleStartIndex(prg_info, m, path[1][2]),
                                      bases_left, Tail(path), prg_info)
            ELSE OverlappedBases(SiteEnd(prg_info, m) + 1, bases_left, path, prg_info)

\* The base counters of the alleles with a one at every base overlapped and a
\* zero elsewhere.
OverlapCoverage(sa_index, read_length, search_state, prg_info) ==
    LET read_start_index == prg_info.fm_index.sa[sa_index]
        path == search_state.variant_site_path
        overlapped ==
            OverlappedBases(read_start_index, read_length,
                            IF prg_info.sites_mask[read_start_index] /= 0
                            THEN Tail(path) ELSE path,
                            prg_info)
    IN [site \in DOMAIN allele_base_structure(prg_info) |->
           [allele \in DOMAIN allele_base_structure(prg_info)[site] |->
               [base \in DOMAIN allele_base_structure(prg_info)[site][allele] |->
                   IF \E q \in overlapped :
                          /\ prg_info.sites_mask[q] = min_boundary_marker + 2 * site
                          /\ prg_info.allele_mask[q] = allele + 1
                          /\ q - AlleleStartIndex(prg_info, prg_info.sites_mask[q],
                                                  allele + 1) = base
                   THEN 1 ELSE 0]]]

\* C24: one mapping instance recorded on zeroed coverage increments exactly
\* the counters of the allele bases the read lies on along its path, also in
\* a PRG whose first symbol is a site marker.
C24_BasesOverlappedAreCounted ==
    \A instance \in MappingInstances :
        sa_index_allele_base_coverage(
            empty_structure(loaded_prg_info), <<>>, instance[2], Len(current_read),
            instance[1], loaded_prg_info).coverage.allele_base_coverage
        = OverlapCoverage(instance[2], Len(current_read), instance[1], loaded_prg_info)

(***************************************************************************)
(* Specification of the workers of quasimap counting on one base counter:  *)
(* each worker runs, for every hit of a read of its own on the base, the   *)
(* body of the loop of set_site_base_coverage: the test of the counter     *)
(* against UINT16_MAX, then the atomic increment of the 16-bit counter.    *)
(* The steps of the workers interleave in every order.                     *)
(***************************************************************************)
MaxWorkers == 3
MaxWorkerHits == 2

Workers == 1..MaxWorkers

WorkerStartCounts == {0, UINT16_MAX - 2, UINT16_MAX - 1, UINT16_MAX}

InitWorkers ==
    /\ prg_raw = <<>>
    /\ encode_out = NotRun
    /\ encoded_prg = <<>>
    /\ masks = NoMasks
    /\ SearchIdle
    /\ CoverageIdle
    /\ RegionsIdle
    /\ PathsIdle
    /\ GenerateIdle
    /\ base_counter \in WorkerStartCounts
    /\ worker_pc = [w \in Workers |-> "check"]
    /\ worker_hits_left \in [Workers -> 0..MaxWorkerHits]

\* if (allele_coverage[i] == UINT16_MAX) continue;
SaturationCheck(w) ==
    /\ worker_pc[w] = "check"
    /\ worker_hits_left[w] > 0
    /\ IF base_counter = UINT16_MAX
       THEN /\ worker_hits_left' = [worker_hits_left EXCEPT ![w] = @ - 1]
            /\ UNCHANGED worker_pc
       ELSE /\ worker_pc' = [worker_pc EXCEPT ![w] = "increment"]
            /\ UNCHANGED worker_hits_left
    /\ UNCHANGED base_counter
    /\ UNCHANGED <<prg_vars, search_vars, coverage_vars, region_vars, path_vars,
                   generate_vars>>

\* #pragma omp atomic  ++allele_coverage[i];
AtomicIncrement(w) ==
    /\ worker_pc[w] = "increment"
    /\ base_counter' = (base_counter + 1) % (UINT16_MAX + 1)
    /\ worker_pc' = [worker_pc EXCEPT ![w] = "check"]
    /\ worker_hits_left' = [worker_hits_left EXCEPT ![w] = @ - 1]
    /\ UNCHANGED <<prg_vars, search_vars, coverage_vars, region_vars, path_vars,
                   generate_vars>>

NextWorkers ==
    \E w \in Workers :
        \/ SaturationCheck(w)
        \/ AtomicIncrement(w)

SpecWorkers == InitWorkers /\ [][NextWorkers]_vars

\* C25: whatever the interleaving of the workers, the base counter never
\* decreases (it never wraps around to 0) and never exceeds 65535.
C25_CounterNeverWraps ==
    [][base_counter' >= base_counter /\ base_counter' <= UINT16_MAX]_vars

(***************************************************************************)
(* Specification of combine_overlapping_regions on lists of kmer region    *)
(* ranges: any list of up to MaxRanges ranges within 0..MaxRangeIndex, in  *)
(* any order, is combined, and the result is combined again.  A kmer       *)
(* region range is what get_kmer_region_ranges builds: it starts at the    *)
(* start marker of a site and ends at its end marker or further right, so  *)
(* it holds the two markers and the bases between them.                    *)
(***************************************************************************)
MaxRanges == 3
MaxRangeIndex == 6
MaxTimesCombined == 2

PrgIndexRanges ==
    {range \in (0..MaxRangeIndex) \X (0..MaxRangeIndex) : range[1] + 2 <= range[2]}

InitRegions ==
    /\ prg_raw = <<>>
    /\ encode_out = NotRun
    /\ encoded_prg = <<>>
    /\ masks = NoMasks
    /\ SearchIdle
    /\ CoverageIdle
    /\ WorkersIdle
    /\ PathsIdle
    /\ GenerateIdle
    /\ region_ranges_given \in SeqsUpTo(PrgIndexRanges, MaxRanges)
    /\ region_ranges_reduced = <<>>
    /\ times_combined = 0

CombineOverlappingRegions ==
    /\ times_combined < MaxTimesCombined
    /\ region_ranges_reduced' =
           combine_overlapping_regions(IF times_combined = 0 THEN region_ranges_given
                                       ELSE region_ranges_reduced)
    /\ times_combined' = times_combined + 1
    /\ UNCHANGED region_ranges_given
    /\ UNCHANGED <<prg_vars, search_vars, coverage_vars, worker_vars, path_vars,
                   generate_vars>>

NextRegions == CombineOverlappingRegions

SpecRegions == InitRegions /\ [][NextRegions]_vars

\* The PRG indexes of a list of ranges.
IndexesOf(ranges) ==
    UNION {ranges[n][1]..ranges[n][2] : n \in 1..Len(ranges)}

\* C26: the ranges combine_overlapping_regions returns for a list of kmer
\* region ranges are sorted by their start, do not overlap each other and
\* hold exactly the PRG indexes of the ranges given, whatever their order,
\* nesting, repetition or start; the function returns its own result
\* unchanged.
C26_RegionsCombined ==
    times_combined >= 1 =>
        /\ \A n \in 1..(Len(region_ranges_reduced) - 1) :
               /\ region_ranges_reduced[n][1] < region_ranges_reduced[n + 1][1]
               /\ region_ranges_reduced[n][2] < region_ranges_reduced[n + 1][1]
        /\ IndexesOf(region_ranges_reduced) = IndexesOf(region_ranges_given)
        /\ combine_overlapping_regions(region_ranges_reduced) = region_ranges_reduced

\* C26 witness: three ranges given out of order, one of them starting at PRG
\* index 0 with another nested in it and the third apart from both, have
\* been combined into two ranges.
C26_Witness ==
    /\ times_combined >= 1
    /\ Len(region_ranges_given) = 3
    /\ region_ranges_given[1][1] > region_ranges_given[2][1]
    /\ \E n, m \in 1..3 :
           /\ n /= m
           /\ region_ranges_given[n][1] = 0
           /\ region_ranges_given[n][1] < region_ranges_given[m][1]
           /\ region_ranges_given[m][2] <= region_ranges_given[n][2]
    /\ Len(region_ranges_reduced) = 2
    /\ region_ranges_reduced[1][1] = 0

(***************************************************************************)
(* Specification of the loop over the paths of                             *)
(* get_region_parts_reverse_kmers: up to MaxParts region parts of up to    *)
(* MaxPartAlleles alleles each, and a kmer size of 1 to MaxPathKmerSize.   *)
(* Every pass of the loop makes the path of the current index vector,      *)
(* takes its reverse kmers with get_path_reverse_kmers and advances the    *)
(* vector with update_allele_index_path.  The region parts are those of a  *)
(* region with a site in it, so there is at least one part, and the        *)
(* alleles are not empty.  The loop runs in one thread that keeps running, *)
(* hence the fairness.                                                     *)
(***************************************************************************)
MaxParts == 3
MaxPartAlleles == 3
MaxPathKmerSize == 2

PartAlleles == {<<1>>, <<2>>}

RegionParts ==
    SeqsUpTo(SeqsUpTo(PartAlleles, MaxPartAlleles) \ {<<>>}, MaxParts) \ {<<>>}

InitPaths ==
    /\ prg_raw = <<>>
    /\ encode_out = NotRun
    /\ encoded_prg = <<>>
    /\ masks = NoMasks
    /\ SearchIdle
    /\ CoverageIdle
    /\ WorkersIdle
    /\ RegionsIdle
    /\ GenerateIdle
    /\ parts_of_region \in RegionParts
    /\ size_of_kmers \in 1..MaxPathKmerSize
    /\ allele_counts_of_parts = [i \in 1..Len(parts_of_region) |-> Len(parts_of_region[i])]
    /\ allele_index_path = [i \in 1..Len(parts_of_region) |-> 0]
    /\ reverse_kmers_made = {}
    /\ paths_counted = 0
    /\ index_paths_made = <<>>
    /\ path_loop_pc = "path_loop"

RECURSIVE Product(_)
Product(counts) == IF counts = <<>> THEN 1 ELSE Head(counts) * Product(Tail(counts))

\* One pass through the while loop: its test, and its body with the break.
\* A pass whose get_path_reverse_kmers does not return is the last step of
\* the run: nothing is returned.
PathLoopStep ==
    /\ path_loop_pc = "path_loop"
    /\ IF paths_counted < total_number_paths(parts_of_region)
       THEN LET path == Flatten([i \in 1..Len(parts_of_region) |->
                                    parts_of_region[i][allele_index_path[i] + 1]])
                reverse_kmers == get_path_reverse_kmers(path, size_of_kmers)
                updated == update_allele_index_path(allele_index_path,
                                                    allele_counts_of_parts)
            IN IF path_read_below_zero \in reverse_kmers
               THEN /\ path_loop_pc' = "no_return"
                    /\ UNCHANGED <<index_paths_made, paths_counted, allele_index_path,
                                   reverse_kmers_made>>
               ELSE /\ index_paths_made' = Append(index_paths_made, allele_index_path)
                    /\ reverse_kmers_made' = reverse_kmers_made \cup reverse_kmers
                    /\ paths_counted' = paths_counted + 1
                    /\ allele_index_path' = updated.current_allele_index_path
                    /\ path_loop_pc' = IF updated.more_paths_possible THEN "path_loop"
                                       ELSE "returned"
       ELSE /\ path_loop_pc' = "returned"
            /\ UNCHANGED <<index_paths_made, paths_counted, allele_index_path,
                           reverse_kmers_made>>
    /\ UNCHANGED <<parts_of_region, size_of_kmers, allele_counts_of_parts>>
    /\ UNCHANGED <<prg_vars, search_vars, coverage_vars, worker_vars, region_vars,
                   generate_vars>>

NextPaths == PathLoopStep

SpecPaths == InitPaths /\ [][NextPaths]_vars /\ WF_vars(NextPaths)

\* The index vectors of the parts, and their order.
IndexVectors(counts) ==
    {v \in [1..Len(counts) -> 0..(MaxPartAlleles - 1)] :
        \A i \in 1..Len(counts) : v[i] < counts[i]}

LexicographicallyLess(u, v) ==
    \E i \in 1..Len(u) : u[i] < v[i] /\ \A j \in 1..(i - 1) : u[j] = v[j]

\* v follows u directly among the index vectors.
IsNextIndexVector(u, v, counts) ==
    /\ v \in IndexVectors(counts)
    /\ LexicographicallyLess(u, v)
    /\ ~\E w \in IndexVectors(counts) :
           LexicographicallyLess(u, w) /\ LexicographicallyLess(w, v)

PathsInOrder ==
    /\ paths_counted = Len(index_paths_made)
    /\ index_paths_made /= <<>> =>
           index_paths_made[1] = [i \in 1..Len(allele_counts_of_parts) |-> 0]
    /\ \A n \in 1..(Len(index_paths_made) - 1) :
           IsNextIndexVector(index_paths_made[n], index_paths_made[n + 1],
                             allele_counts_of_parts)
    /\ path_loop_pc = "path_loop" =>
           LET updated == update_allele_index_path(allele_index_path,
                                                   allele_counts_of_parts)
               last == [i \in 1..Len(allele_counts_of_parts) |->
                           allele_counts_of_parts[i] - 1]
           IN /\ updated.more_paths_possible = (allele_index_path /= last)
              /\ updated.more_paths_possible =>
                     IsNextIndexVector(allele_index_path,
                                       updated.current_allele_index_path,
                                       allele_counts_of_parts)
              /\ ~updated.more_paths_possible =>
                     updated.current_allele_index_path = allele_index_path
    /\ path_loop_pc = "returned" =>
           /\ {index_paths_made[n] : n \in 1..Len(index_paths_made)}
                  = IndexVectors(allele_counts_of_parts)
           /\ paths_counted = Product(allele_counts_of_parts)

\* C27: from the all-zero vector, update_allele_index_path goes through the
\* index vectors below the allele counts in lexicographic order, each once,
\* returns true for every advance and false, with the vector unchanged, at
\* the last one; the loop over the paths ends, after as many iterations as
\* the product of the allele counts.
C27_AllIndexPathsInOrder ==
    []PathsInOrder /\ <>(path_loop_pc = "returned")

(***************************************************************************)
(* Specification of generate_all_kmers, next_kmer taken step by step: the  *)
(* insertion of the current kmer, every read of the leftward scan for the  *)
(* rightmost base below 4, and the update of the kmer.  Positions of the   *)
(* kmer are counted from 0, as in the code.  The scan has no test of its   *)
(* index: on the kmer of 4s only it reads the bytes in front of the kmer,  *)
(* which hold any value; it goes on for as long as it reads a 4, here over *)
(* at most MaxBytesBelow bytes, unless a read in front of the kmer stops   *)
(* the process.                                                            *)
(***************************************************************************)
MaxAllKmersSize == 3
MaxBytesBelow == 2

\* What a byte in front of the kmer may hold, as far as the scan tells: the
\* value 4 or another value.
BytesBelow == {0, 4}

InitGenerate ==
    /\ prg_raw = <<>>
    /\ encode_out = NotRun
    /\ encoded_prg = <<>>
    /\ masks = NoMasks
    /\ SearchIdle
    /\ CoverageIdle
    /\ WorkersIdle
    /\ RegionsIdle
    /\ PathsIdle
    /\ all_kmers_size \in 1..MaxAllKmersSize
    /\ enumerated_kmer = [i \in 1..all_kmers_size |-> 1]
    /\ scan_index = 0
    /\ scan_reads = {}
    /\ inserted_kmers = <<>>
    /\ generate_pc = "insert"

\* all_kmers.insert(current_kmer), and the entry of next_kmer.
InsertKmer ==
    /\ generate_pc = "insert"
    /\ inserted_kmers' = Append(inserted_kmers, enumerated_kmer)
    /\ scan_index' = all_kmers_size - 1
    /\ scan_reads' = {}
    /\ generate_pc' = "scan"
    /\ UNCHANGED <<all_kmers_size, enumerated_kmer>>
    /\ UNCHANGED <<prg_vars, search_vars, coverage_vars, worker_vars, region_vars,
                   path_vars>>

\* while (current_kmer[max_update_index] == 4) max_update_index--;
ScanStep ==
    /\ generate_pc = "scan"
    /\ \/ \E byte \in IF scan_index \in 0..(all_kmers_size - 1)
                      THEN {enumerated_kmer[scan_index + 1]}
                      ELSE IF scan_index > -MaxBytesBelow THEN BytesBelow
                      ELSE BytesBelow \ {4} :
              IF byte = 4
              THEN /\ scan_index' = scan_index - 1
                   /\ UNCHANGED generate_pc
              ELSE /\ generate_pc' = "update"
                   /\ UNCHANGED scan_index
       \/ /\ scan_index \notin 0..(all_kmers_size - 1)
          /\ generate_pc' = "process_stopped"
          /\ UNCHANGED scan_index
    /\ scan_reads' = scan_reads \cup {scan_index}
    /\ UNCHANGED <<all_kmers_size, enumerated_kmer, inserted_kmers>>
    /\ UNCHANGED <<prg_vars, search_vars, coverage_vars, worker_vars, region_vars,
                   path_vars>>

\* The rest of next_kmer, and the test of generate_all_kmers for the empty
\* kmer.
UpdateKmer ==
    /\ generate_pc = "update"
    /\ IF scan_index < 0
       THEN /\ enumerated_kmer' = <<>>
            /\ generate_pc' = "returned"
       ELSE /\ enumerated_kmer' =
                   [i \in 1..all_kmers_size |->
                       IF i - 1 < scan_index THEN enumerated_kmer[i]
                       ELSE IF i - 1 = scan_index THEN enumerated_kmer[i] + 1
                       ELSE 1]
            /\ generate_pc' = "insert"
    /\ UNCHANGED <<all_kmers_size, scan_index, scan_reads, inserted_kmers>>
    /\ UNCHANGED <<prg_vars, search_vars, coverage_vars, worker_vars, region_vars,
                   path_vars>>

NextGenerate ==
    \/ InsertKmer
    \/ ScanStep
    \/ UpdateKmer

SpecGenerate == InitGenerate /\ [][NextGenerate]_vars /\ WF_vars(NextGenerate)

ScanWithinKmer ==
    /\ scan_reads \subseteq 0..(all_kmers_size - 1)
    /\ generate_pc = "scan" => scan_index >= 0

AllKmersInserted ==
    generate_pc = "returned" =>
        /\ enumerated_kmer = <<>>
        /\ Len(inserted_kmers) = 4 ^ all_kmers_size
        /\ {inserted_kmers[n] : n \in 1..Len(inserted_kmers)}
               = [1..all_kmers_size -> 1..4]

\* C28: the leftward scan of next_kmer ends as soon as its index is below 0
\* and reads no position outside the kmer; on the kmer of 4s only next_kmer
\* gives the empty kmer, and generate_all_kmers ends, with 4^k kmers
\* inserted.
C28_ScanEndsBelowZero ==
    [](ScanWithinKmer /\ AllKmersInserted) /\ <>(generate_pc = "returned")

\* The search states an extension step has made or is applied to: the
\* entries of the kmer index, and the states of the read being searched.
ReachedSearchStates ==
    UNION {{search_states[n] : n \in 1..Len(search_states)} :
              search_states \in ExtensionInputs \cup
                                (IF pc = "returned" THEN {current_search_states}
                                 ELSE {})}

\* The sites of the path are sites of the PRG, listed in the order of their
\* positions in the PRG.
PathInPrgOrder(path, prg_info) ==
    /\ \A n \in 1..Len(path) : path[n][1] \in Sites(prg_info)
    /\ \A n \in 1..(Len(path) - 1) :
           FirstIndexOf(prg_info, path[n][1]) < FirstIndexOf(prg_info, path[n + 1][1])

\* longer is path with loci put in front of it.
IsBackOf(path, longer) ==
    /\ Len(path) <= Len(longer)
    /\ SubSeq(longer, Len(longer) - Len(path) + 1, Len(longer)) = path

\* C29: the path of every search state reached from a state with an empty
\* path lists its sites in the order of the PRG, no site twice; an extension
\* step puts loci in front of the path of the state it extends and leaves
\* the loci of that path as they are.
C29_PathInPrgOrder ==
    /\ \A search_state \in ReachedSearchStates :
           PathInPrgOrder(search_state.variant_site_path, loaded_prg_info)
    /\ \A search_states \in ExtensionInputs :
           \A n \in 1..Len(search_states) : \A pattern_char \in 1..4 :
               LET extended == process_read_char_search_states(
                                   pattern_char, <<search_states[n]>>, loaded_prg_info)
               IN \A e \in 1..Len(extended) :
                      /\ IsBackOf(search_states[n].variant_site_path,
                                  extended[e].variant_site_path)
                      /\ PathInPrgOrder(extended[e].variant_site_path, loaded_prg_info)

\* During the search of a read, the next base extends a state that has a
\* path into a state with one more locus in front of it.
C29_Witness ==
    /\ pc = "read_loop"
    /\ remaining_bases > 0
    /\ \E n \in 1..Len(current_search_states) :
           LET extended == process_read_char_search_states(
                               current_read[remaining_bases],
                               <<current_search_states[n]>>, loaded_prg_info)
           IN /\ current_search_states[n].variant_site_path /= <<>>
              /\ \E e \in 1..Len(extended) :
                     Len(extended[e].variant_site_path)
                         > Len(current_search_states[n].variant_site_path)

(***************************************************************************)
(* C30.  The patterns of get_prg_reverse_kmers.  The claim is checked on   *)
(* the result of get_prg_reverse_kmers in the state that follows           *)
(* get_all_kmers with all_kmers_flag off; a build whose                    *)
(* get_path_reverse_kmers does not return has no such state.  The PRGs     *)
(* are those of the build and a PRG of two sites whose markers, 259 to     *)
(* 262, do not fit in the eight bits of a Base, as the markers of a PRG    *)
(* with 127 sites or more do not.                                          *)
(***************************************************************************)
\* a 259 a 260 c 259 c 261 a 262 c 261
WideMarkerConfigs ==
    {Config(<<1, 259, 1, 260, 2, 259, 2, 261, 1, 262, 2, 261>>, 2, 2, FALSE)}

KmersConfigs == Configs \cup WideMarkerConfigs

InitKmers ==
    /\ prg_raw = <<>>
    /\ encode_out = NotRun
    /\ encoded_prg = <<>>
    /\ masks = NoMasks
    /\ \E config \in KmersConfigs :
           /\ loaded_prg_info = load_prg_info(config.prg)
           /\ build_parameters = config.parameters
    /\ all_kmers = <<>>
    /\ built_kmer_index = <<>>
    /\ current_read = <<>>
    /\ remaining_bases = 0
    /\ current_search_states = <<>>
    /\ read_not_mapped = FALSE
    /\ pc = "get_all_kmers"
    /\ CoverageIdle
    /\ LoopsIdle

NextKmers == GetAllKmers

SpecKmers == InitKmers /\ [][NextKmers]_vars

PrgReverseKmersReturned ==
    pc = "index_kmers" /\ ~build_parameters.all_kmers_flag

\* The bases that the PRG holds.
PrgBases(prg_info) ==
    {prg_info.encoded_prg[index] : index \in DOMAIN prg_info.encoded_prg} \cap (1..4)

\* C30 (as claimed): every pattern that get_prg_reverse_kmers returns has
\* exactly kmers_size symbols, each of them a base 1..4, and holds no site or
\* allele marker: each of its symbols is a base that the PRG holds.
C30_ReverseKmersAreDna ==
    PrgReverseKmersReturned =>
        \A reverse_kmer \in get_prg_reverse_kmers(build_parameters, loaded_prg_info) :
            /\ Len(reverse_kmer) = build_parameters.kmers_size
            /\ \A i \in 1..Len(reverse_kmer) : reverse_kmer[i] \in 1..4
            /\ \A i \in 1..Len(reverse_kmer) :
                   reverse_kmer[i] \in PrgBases(loaded_prg_info)

====
